---- MODULE Spec2Model ----
(***************************************************************************)
(* Model of the tzstats-go table decoders for operations (op.go) and       *)
(* blocks (block.go): the columnar row decoders Op.UnmarshalJSONBrief and  *)
(* Block.UnmarshalJSONBrief, the row dispatchers Op.UnmarshalJSON and      *)
(* Block.UnmarshalJSON, the batch decoders OpList.UnmarshalJSON and        *)
(* BlockList.UnmarshalJSON, and the cursor accessors.                      *)
(*                                                                         *)
(* JSON text is modelled after tokenisation: a decoded JSON value is a     *)
(* record [k, n, t] where k is the JSON kind, n the literal text of a      *)
(* number as a sequence of characters (json.Number keeps the text) and t   *)
(* the content of a string.                                                *)
(***************************************************************************)
EXTENDS Integers, Sequences, FiniteSets, TLC

VARIABLES
    o,        \* the Op record a caller decodes a single row into
    b,        \* the Block record a caller decodes a single row into
    l,        \* the OpList: [Rows, withPrim, columns]
    bl,       \* the BlockList: [Rows, columns]
    pc,       \* position of the batch decode in progress ("idle" when none)
    array,    \* the rows of the batch being decoded (kept after the call)
    idx,      \* index into array of the next row of the running batch
    cur,      \* the record built for the row at idx (OpList loop, after WithScript)
    base,     \* number of Rows the collection held when the batch call started
    call,     \* the last decoder call on the object as it is now configured: its
              \* name, its data, the target before it, its outcome
    active,   \* which of the objects the caller works with ("none" at first); with
              \* "opquery" and "blockquery" it holds a query and no collection
    lookups,  \* the resolver invocations of the last OpList batch call, in order
    sharedLoopVar  \* whether the build gives a range loop one variable for all
              \* its iterations (a go directive below 1.22) or one per iteration

vars == <<o, b, l, bl, pc, array, idx, cur, base, call, active, lookups, sharedLoopVar>>

-----------------------------------------------------------------------------
(* JSON values as produced by json.Decoder with UseNumber *)

JNull == [k |-> "null", n |-> <<>>, t |-> ""]
JNum(chars) == [k |-> "num", n |-> chars, t |-> ""]
JStr(s) == [k |-> "str", n |-> <<>>, t |-> s]
JBool(v) == [k |-> "bool", n |-> <<>>, t |-> IF v THEN "true" ELSE "false"]

Digits == {"0", "1", "2", "3", "4", "5", "6", "7", "8", "9"}

DigitVal(c) ==
    CASE c = "0" -> 0 [] c = "1" -> 1 [] c = "2" -> 2 [] c = "3" -> 3
      [] c = "4" -> 4 [] c = "5" -> 5 [] c = "6" -> 6 [] c = "7" -> 7
      [] c = "8" -> 8 [] c = "9" -> 9

AllDigits(s) == \A i \in 1..Len(s) : s[i] \in Digits

RECURSIVE DecVal(_)
DecVal(s) ==
    IF Len(s) = 0 THEN 0
    ELSE 10 * DecVal(SubSeq(s, 1, Len(s) - 1)) + DigitVal(s[Len(s)])

\* the result of a parse: ok says whether err == nil, v is the value returned
Parsed(v) == [ok |-> TRUE, v |-> v]
Failed(zero) == [ok |-> FALSE, v |-> zero]

\* strconv.ParseBool on the text of a JSON number: only "1" and "0" are
\* accepted ("t", "true", ... are no JSON numbers)
ParseBool(s) ==
    IF s = <<"1">> THEN Parsed(TRUE)
    ELSE IF s = <<"0">> THEN Parsed(FALSE)
    ELSE Failed(FALSE)

\* a float64 is modelled by its binary expansion: bits = <<1, b2, b3, ...>>
\* stands for 1.b2b3... * 2^exp; bits holds at most 53 bits and ends with a
\* 1, and zero has no bits.  Two texts give the same float64 exactly when
\* they give the same record.
ZeroFloat == [neg |-> FALSE, exp |-> 0, bits |-> <<>>]

\* a zero with its sign bit: ParseFloat("-0") is -0
SignedZero(neg) == [neg |-> neg, exp |-> 0, bits |-> <<>>]

\* the infinities, written as 2^1024, the power of two above MaxFloat64
InfFloat(neg) == [neg |-> neg, exp |-> 1024, bits |-> <<1>>]

IndexOfDot(s) ==
    IF \E i \in 1..Len(s) : s[i] = "."
    THEN CHOOSE i \in 1..Len(s) : s[i] = "." /\ \A j \in 1..(i - 1) : s[j] # "."
    ELSE 0

\* the position of the exponent mark of a number text, 0 when it has none
IndexOfExp(s) ==
    IF \E i \in 1..Len(s) : s[i] \in {"e", "E"}
    THEN CHOOSE i \in 1..Len(s) : s[i] \in {"e", "E"} /\ \A j \in 1..(i - 1) : s[j] \notin {"e", "E"}
    ELSE 0

\* the number of decimal digits of a positive integer
RECURSIVE NumDigits(_)
NumDigits(n) == IF n < 10 THEN 1 ELSE 1 + NumDigits(n \div 10)

\* The decimal of a number text has more digits than an integer of the model
\* holds, so the conversion computes with natural numbers of any size: the
\* sequence of the digits in base 10^9, lowest first, without high zeros
\* (zero is the empty sequence).
Limb == 1000000000

\* the digit of num at place i, 0 above its highest
BigLimb(num, i) == IF i <= Len(num) THEN num[i] ELSE 0

\* a sequence without the zeros at its end
TrimZeros(num) ==
    IF \A i \in 1..Len(num) : num[i] = 0 THEN <<>>
    ELSE SubSeq(num, 1, CHOOSE i \in 1..Len(num) :
                            num[i] # 0 /\ \A j \in (i + 1)..Len(num) : num[j] = 0)

\* the number written by a sequence of decimal digits
BigFromDigits(s) ==
    TrimZeros([j \in 1..((Len(s) + 8) \div 9) |->
                DecVal(SubSeq(s, IF Len(s) - 9 * j + 1 < 1 THEN 1 ELSE Len(s) - 9 * j + 1,
                              Len(s) - 9 * (j - 1)))])

\* whether the places of num below place i make a number below that of the
\* places of den below i
BigLowLess(num, den, i) ==
    \E t \in 1..(i - 1) :
        /\ BigLimb(num, t) < BigLimb(den, t)
        /\ \A u \in (t + 1)..(i - 1) : BigLimb(num, u) = BigLimb(den, u)

\* -1, 0 or 1 as num is below, equal to or above den
BigCmp(num, den) ==
    IF Len(num) # Len(den) THEN (IF Len(num) < Len(den) THEN -1 ELSE 1)
    ELSE IF BigLowLess(num, den, Len(num) + 1) THEN -1
    ELSE IF BigLowLess(den, num, Len(num) + 1) THEN 1
    ELSE 0

\* num - den for num >= den: a place borrows when the places below it make
\* less in num than in den
BigSub(num, den) ==
    TrimZeros([i \in 1..Len(num) |->
                (num[i] - BigLimb(den, i) - (IF BigLowLess(num, den, i) THEN 1 ELSE 0) + Limb) % Limb])

\* 2 * num: a place carries when it holds half of the base or more
BigDouble(num) ==
    TrimZeros([i \in 1..(Len(num) + 1) |->
                ((2 * BigLimb(num, i)) % Limb)
                + (IF i > 1 /\ num[i - 1] >= Limb \div 2 THEN 1 ELSE 0)])

\* num * 2^n
RECURSIVE BigMulPow2(_, _)
BigMulPow2(num, n) ==
    IF Len(num) = 0 \/ n = 0 THEN num
    ELSE IF n = 1 THEN BigDouble(num)
    ELSE BigMulPow2(BigMulPow2(num, n \div 2), n - n \div 2)

\* the binary exponent of num / den: the k with 1 <= num / (den * 2^k) < 2,
\* found from a lower bound k by doubling den, with the scaled den
RECURSIVE FloatNorm(_, _, _)
FloatNorm(num, den, k) ==
    IF BigCmp(num, BigDouble(den)) >= 0 THEN FloatNorm(num, BigDouble(den), k + 1)
    ELSE [den |-> den, k |-> k]

\* the first n bits of r / den (0 <= r / den < 2, the first bit is the
\* integer part) and the rest: rem / den is twice what the bits leave out,
\* in units of the last bit
RECURSIVE FloatBits(_, _, _)
FloatBitsCat(bits, rest) == [bits |-> bits \o rest.bits, rem |-> rest.rem]

FloatBitsJoin(first, den, n) == FloatBitsCat(first.bits, FloatBits(first.rem, den, n))

FloatBits(r, den, n) ==
    IF n = 0 THEN [bits |-> <<>>, rem |-> r]
    ELSE IF n = 1
    THEN (IF BigCmp(r, den) >= 0 THEN [bits |-> <<1>>, rem |-> BigDouble(BigSub(r, den))]
          ELSE [bits |-> <<0>>, rem |-> BigDouble(r)])
    ELSE FloatBitsJoin(FloatBits(r, den, n \div 2), den, n - n \div 2)

\* one more in the last of the bits: carry is 1 when the sum is the next
\* power of two
BitsInc(bits) ==
    IF \A i \in 1..Len(bits) : bits[i] = 1 THEN [carry |-> 1, bits |-> <<1>>]
    ELSE LET i == CHOOSE i \in 1..Len(bits) :
                      bits[i] = 0 /\ \A j \in (i + 1)..Len(bits) : bits[j] = 1
         IN  [carry |-> 0, bits |-> Append(SubSeq(bits, 1, i - 1), 1)]

\* rounding to the nearest float64, a tie to the even one: r holds the n
\* bits of the value that a float64 of exponent k keeps and the rest
FloatRound(neg, k, n, den, r) ==
    LET up == BigCmp(r.rem, den) > 0 \/ (BigCmp(r.rem, den) = 0 /\ n > 0 /\ r.bits[n] = 1)
        q == IF up THEN BitsInc(r.bits) ELSE [carry |-> 0, bits |-> TrimZeros(r.bits)]
    IN  IF Len(q.bits) = 0 THEN Parsed(SignedZero(neg))
        ELSE IF k + q.carry >= 1024 THEN Failed(InfFloat(neg))
        ELSE Parsed([neg |-> neg, exp |-> k + q.carry, bits |-> q.bits])

\* the float64 nearest to num / den, where 1 <= num / (den * 2^k) < 2 for
\* the den and k of nd: a float64 of exponent k >= -1022 keeps 53 bits, a
\* denormal one the bits down to 2^-1074, and a value under 2^-1075 is
\* nearest to zero
FloatNearest(neg, num, nd) ==
    IF nd.k < -1075 THEN Parsed(SignedZero(neg))
    ELSE IF nd.k >= -1022 THEN FloatRound(neg, nd.k, 53, nd.den, FloatBits(num, nd.den, 53))
    ELSE FloatRound(neg, nd.k, nd.k + 1075, nd.den, FloatBits(num, nd.den, nd.k + 1075))

\* the float64 nearest to num / den, where k is a lower bound of the binary
\* exponent: 1 <= num / (den * 2^k)
FloatOfScaled(neg, num, den, k) == FloatNearest(neg, num, FloatNorm(num, den, k))

\* the float64 nearest to the decimal of the digits s times 10^x (s has a
\* digit other than 0): the ratio of the number s with x zeros after it, or
\* of s, and 10^-x.  With d digits before the point the decimal lies in
\* [10^(d-1), 10^d): one of 10^309 or more is above MaxFloat64, one under
\* 10^-324 is under 2^-1075, and k, the whole part of (d - 1) * log2(10)
\* less one, is a lower bound of the binary exponent.
FloatOfDecimal(neg, s, x) ==
    LET m == BigFromDigits(s)
        d == 9 * (Len(m) - 1) + NumDigits(m[Len(m)]) + x
        k == ((d - 1) * 3321928) \div 1000000 - 1
    IN  IF d > 309 THEN Failed(InfFloat(neg))
        ELSE IF d <= -324 THEN Parsed(SignedZero(neg))
        ELSE FloatOfScaled(neg,
                 BigMulPow2(BigFromDigits(s \o [i \in 1..(IF x > 0 THEN x ELSE 0) |-> "0"]),
                            IF k < 0 THEN -k ELSE 0),
                 BigMulPow2(BigFromDigits(<<"1">> \o [i \in 1..(IF x < 0 THEN -x ELSE 0) |-> "0"]),
                            IF k > 0 THEN k ELSE 0),
                 k)

\* the value of the digits of an exponent: ParseFloat stops adding digits
\* once the value is 10000 or more, that is after five digits from the first
\* one that is not 0
ExpVal(s) ==
    IF \A i \in 1..Len(s) : s[i] = "0" THEN 0
    ELSE LET i == CHOOSE i \in 1..Len(s) : s[i] # "0" /\ \A j \in 1..(i - 1) : s[j] = "0"
         IN  DecVal(SubSeq(s, i, IF i + 4 < Len(s) THEN i + 4 ELSE Len(s)))

\* json.Number.Float64() and strconv.ParseFloat(s, 64); ParseFloat treats
\* any bit size other than 32 as 64.  The text is a sign, digits with at most
\* one point, and an optional exponent part: e or E, a sign, digits (the
\* other forms ParseFloat reads, inf, nan, hexadecimal and underscores, are
\* no JSON numbers).  The value is the float64 nearest to the decimal, a tie
\* going to the even one.  A value that rounds to 2^1024 or more is an error
\* (ErrRange) returned with an infinity, and one that rounds to zero is a
\* zero without an error.
ParseFloat(s) ==
    LET neg == Len(s) > 0 /\ s[1] = "-"
        signed == Len(s) > 0 /\ s[1] \in {"-", "+"}
        body == IF signed THEN SubSeq(s, 2, Len(s)) ELSE s
        ex == IndexOfExp(body)
        mant == IF ex = 0 THEN body ELSE SubSeq(body, 1, ex - 1)
        expo == IF ex = 0 THEN <<"0">> ELSE SubSeq(body, ex + 1, Len(body))
        eneg == Len(expo) > 0 /\ expo[1] = "-"
        edig == IF Len(expo) > 0 /\ expo[1] \in {"-", "+"} THEN SubSeq(expo, 2, Len(expo)) ELSE expo
        dot == IndexOfDot(mant)
        ip == IF dot = 0 THEN mant ELSE SubSeq(mant, 1, dot - 1)
        fp == IF dot = 0 THEN <<>> ELSE SubSeq(mant, dot + 1, Len(mant))
    IN  IF Len(ip) + Len(fp) = 0 \/ ~AllDigits(ip) \/ ~AllDigits(fp)
           \/ Len(edig) = 0 \/ ~AllDigits(edig)
        THEN Failed(ZeroFloat)
        ELSE IF \A i \in 1..Len(ip \o fp) : (ip \o fp)[i] = "0" THEN Parsed(SignedZero(neg))
        ELSE FloatOfDecimal(neg, ip \o fp, (IF eneg THEN -ExpVal(edig) ELSE ExpVal(edig)) - Len(fp))

(* uint64, int64 and int values are wider than an integer of the model, so  *)
(* every one of them is held as a sign and a magnitude, the magnitude a    *)
(* natural number in limbs as above; zero has no limbs and no sign.        *)
Int64(n) ==
    [neg |-> n < 0,
     num |-> TrimZeros(<<(IF n < 0 THEN -n ELSE n) % Limb,
                         (IF n < 0 THEN -n ELSE n) \div Limb>>)]

TwoTo63 == BigMulPow2(<<1>>, 63)
TwoTo64 == BigMulPow2(<<1>>, 64)

\* the loop of strconv.ParseUint over the characters of s, for limit =
\* 2^bitSize and pre the number the digits before the first other character
\* write.  The loop returns at the first character that is no digit (a
\* syntax error, with 0) or at the first digit with which the number passes
\* the range (the range error, with the largest value), whichever comes
\* first; the number of a prefix passes the range exactly when pre does.
UintScan(s, pre, limit) ==
    IF Len(s) = 0 THEN [err |-> "syntax", v |-> Int64(0)]
    ELSE IF BigCmp(pre, limit) >= 0
    THEN [err |-> "range", v |-> [neg |-> FALSE, num |-> BigSub(limit, <<1>>)]]
    ELSE IF ~AllDigits(s) THEN [err |-> "syntax", v |-> Int64(0)]
    ELSE [err |-> "", v |-> [neg |-> FALSE, num |-> pre]]

\* strconv.ParseUint(s, 10, bitSize) with the kind of its error
ParseUintBits(s, limit) ==
    UintScan(s,
             BigFromDigits(SubSeq(s, 1,
                 IF AllDigits(s) THEN Len(s)
                 ELSE (CHOOSE i \in 1..Len(s) :
                          s[i] \notin Digits /\ \A j \in 1..(i - 1) : s[j] \in Digits) - 1)),
             limit)

\* strconv.ParseUint(s, 10, 64)
ParseUint(s) ==
    LET un == ParseUintBits(s, TwoTo64)
    IN  [ok |-> un.err = "", v |-> un.v]

\* strconv.ParseInt after its call of ParseUint gave un: a syntax error is
\* returned with 0; otherwise (the range error of ParseUint included, which
\* gave the largest unsigned value) the value is compared with cutoff =
\* 2^(bitSize-1), and one beyond the range returns the bound it passed
\* together with the range error
SignedOfUint(neg, un, cutoff) ==
    IF un.err = "syntax" THEN Failed(Int64(0))
    ELSE IF ~neg /\ BigCmp(un.v.num, cutoff) >= 0
    THEN Failed([neg |-> FALSE, num |-> BigSub(cutoff, <<1>>)])
    ELSE IF neg /\ BigCmp(un.v.num, cutoff) > 0 THEN Failed([neg |-> TRUE, num |-> cutoff])
    ELSE Parsed([neg |-> neg /\ Len(un.v.num) > 0, num |-> un.v.num])

\* strconv.ParseInt(s, 10, bitSize): an optional sign, then ParseUint of the
\* rest with the same bitSize
ParseSigned(s, cutoff) ==
    IF Len(s) = 0 THEN Failed(Int64(0))
    ELSE SignedOfUint(s[1] = "-",
                      ParseUintBits(IF s[1] \in {"-", "+"} THEN Tail(s) ELSE s,
                                    BigDouble(cutoff)),
                      cutoff)

\* strconv.ParseInt(s, 10, 64)
ParseInt(s) == ParseSigned(s, TwoTo63)

\* strconv.Atoi(s) is ParseInt(s, 10, 0): the range is that of int, which
\* is IntSize bits wide (64 on the 64-bit platforms the client is built for)
IntSize == 64
IntCutoff == BigMulPow2(<<1>>, IntSize - 1)
Atoi(s) == ParseSigned(s, IntCutoff)

\* num * 1000000: in base 10^9 the product shifts every limb by six decimal
\* places, its low three into the limb and its high six into the next
BigMulMillion(num) ==
    TrimZeros([i \in 1..(Len(num) + 1) |->
                (BigLimb(num, i) % 1000) * 1000000
                + (IF i > 1 THEN num[i - 1] \div 1000 ELSE 0)])

\* 2^64 * 2^j for j = 0..19: the multiples of 2^64 a product of an int64
\* and 1000000 (below 2^83) is reduced by
TwoTo64Shifts == [j \in 1..20 |-> BigMulPow2(TwoTo64, j - 1)]

\* the remainder of num by 2^64, for num below 2^64 * 2^j
RECURSIVE BigRem(_, _)
BigRem(num, j) ==
    IF j = 0 \/ BigCmp(num, TwoTo64) < 0 THEN num
    ELSE IF BigCmp(num, TwoTo64Shifts[j]) >= 0
    THEN BigRem(BigSub(num, TwoTo64Shifts[j]), j - 1)
    ELSE BigRem(num, j - 1)

\* the int64 that holds the low 64 bits of a signed magnitude below 2^84:
\* what an int64 product is after it overflowed (two's complement)
WrapUint64(neg, rem) == IF neg /\ Len(rem) > 0 THEN BigSub(TwoTo64, rem) ELSE rem
WrapSigned(low) ==
    IF BigCmp(low, TwoTo63) < 0 THEN [neg |-> FALSE, num |-> low]
    ELSE [neg |-> TRUE, num |-> BigSub(TwoTo64, low)]
WrapInt64(neg, num) == WrapSigned(WrapUint64(neg, BigRem(num, 20)))

\* time.Time: the zero Time differs from every time.Unix(0, nsec)
ZeroTime == [zero |-> TRUE, ns |-> Int64(0)]
TimeUnixNano(nsec) == [zero |-> FALSE, ns |-> nsec]

-----------------------------------------------------------------------------
(* The tezos and micheline packages the decoders call.  Their inputs are    *)
(* strings; the model names a few strings and tabulates what the library    *)
(* returns for them.                                                        *)

ValidAddresses == {"KT1a", "KT1b", "tz1a"}
ValidOpHashes == {"opA"}
ValidBlockHashes == {"BLa", "BLb"}
OpTypes == {"transaction", "origination", "endorsement"}
OpStatuses == {"applied", "failed"}
VotingPeriods == {"proposal", "exploration"}

\* tezos.ParseAddress
ParseAddress(s) == IF s \in ValidAddresses THEN Parsed(s) ELSE Failed("")
\* tezos.ParseOpHash
ParseOpHash(s) == IF s \in ValidOpHashes THEN Parsed(s) ELSE Failed("")
\* tezos.ParseBlockHash
ParseBlockHash(s) == IF s \in ValidBlockHashes THEN Parsed(s) ELSE Failed("")
\* ParseOpType: unknown names give the invalid sentinel, never an error
ParseOpType(s) == IF s \in OpTypes THEN s ELSE "invalid"
\* tezos.ParseOpStatus: likewise
ParseOpStatus(s) == IF s \in OpStatuses THEN s ELSE "invalid"
\* tezos.ParseVotingPeriod: likewise
ParseVotingPeriod(s) == IF s \in VotingPeriods THEN s ELSE "invalid"

\* hex.DecodeString: the bytes are identified with their hex text
InvalidHex == {"zz"}
HexDecodeString(s) == IF s \in InvalidHex THEN Failed("") ELSE Parsed(s)

\* A primitive tree: name identifies it; fits says whether it projects
\* cleanly through the type resolved from the contract script; untyped is
\* what the micheline projection yields for it against the empty type.
Prim(name, fits, untyped) == [name |-> name, fits |-> fits, untyped |-> untyped]
NoPrim == ""
\* a *micheline.Prim field: nil, or a pointer to the tree named p
NilPtr == [nil |-> TRUE, p |-> ""]
Ptr(p) == [nil |-> FALSE, p |-> p]

\* micheline.Type is modelled by a name; the zero Type{} is "" and is the
\* only one for which IsValid() is false
NoType == ""
TypeIsValid(typ) == typ # NoType

\* interface{} values produced by micheline.Value.Map()
NilValue == [nil |-> TRUE, how |-> "", of |-> ""]
MappedValue(how, name) == [nil |-> FALSE, how |-> how, of |-> name]

\* micheline.NewValue(typ, prim) with Render = render, then Map().
\* render 0 renders a mismatching tree as primitives, render 1 fails.
ValueMap(typ, prim, render) ==
    IF ~TypeIsValid(typ) THEN
        CASE prim.untyped = "value" -> Parsed(MappedValue("untyped", prim.name))
          [] prim.untyped = "nil" -> Parsed(NilValue)
          [] OTHER -> Failed(NilValue)
    ELSE IF prim.fits THEN Parsed(MappedValue("typed", prim.name))
    ELSE IF render = 1 THEN Failed(NilValue)
    ELSE Parsed(MappedValue("prim", prim.name))

\* micheline.Parameters.UnmarshalBinary on the bytes of the parameters column
ParamBlobs ==
    [x \in {"p_transfer", "p_mint", "p_raw", "p_opaque"} |->
        CASE x = "p_transfer" -> [Entrypoint |-> "transfer", Value |-> Prim("transfer_args", TRUE, "value")]
          [] x = "p_mint" -> [Entrypoint |-> "mint", Value |-> Prim("mint_args", FALSE, "nil")]
          [] x = "p_raw" -> [Entrypoint |-> "default", Value |-> Prim("raw_args", TRUE, "nil")]
          [] x = "p_opaque" -> [Entrypoint |-> "default", Value |-> Prim("opaque_args", FALSE, "error")]]
ParametersUnmarshalBinary(buf) ==
    IF buf \in DOMAIN ParamBlobs THEN Parsed(ParamBlobs[buf])
    ELSE Failed([Entrypoint |-> "", Value |-> Prim("", FALSE, "nil")])

\* micheline.Prim.UnmarshalBinary on the bytes of the storage column
StorageBlobs ==
    [x \in {"s_ledger", "s_odd"} |->
        CASE x = "s_ledger" -> Prim("ledger", TRUE, "value")
          [] x = "s_odd" -> Prim("odd", FALSE, "nil")]
PrimUnmarshalBinary(buf) ==
    IF buf \in DOMAIN StorageBlobs THEN Parsed(StorageBlobs[buf])
    ELSE Failed(Prim("", FALSE, "nil"))

\* micheline.Parameters.MapEntrypoint(typ): the entrypoint's type is known
\* only when the parameter type is; the error it returns is dropped
MapEntrypoint(params, typ) ==
    [epType |-> IF TypeIsValid(typ) THEN "ep(" \o params.Entrypoint \o ")" ELSE NoType,
     prim |-> params.Value]

\* micheline.BigmapEvent
BigmapEvent(action, id, key, hash, value) ==
    [Action |-> action, Id |-> id, Key |-> key, KeyHash |-> hash, Value |-> value,
     KeyType |-> IF action \in {"alloc", "copy"} THEN "nat" ELSE NoPrim,
     ValueType |-> IF action \in {"alloc", "copy"} THEN "bytes" ELSE NoPrim,
     SourceId |-> IF action = "copy" THEN 1 ELSE 0,
     DestId |-> IF action = "copy" THEN id ELSE 0]

\* the key that denotes no real key: Prim.IsEmptyBigmap()
EmptyBigmapKey == ""

\* micheline.BigmapEvents.UnmarshalBinary on the bytes of the big_map_diff column
DiffBlobs ==
    [x \in {"d_mixed", "d_strict", "d_nokey", "d_none"} |->
        CASE x = "d_mixed" ->
                << BigmapEvent("alloc", 1, EmptyBigmapKey, "", Prim("", FALSE, "nil")),
                   BigmapEvent("update", 1, "k1", "h1", Prim("v1", TRUE, "value")),
                   BigmapEvent("remove", 1, "k2", "h2", Prim("", FALSE, "nil")),
                   BigmapEvent("update", 2, "k3", "h3", Prim("v3", TRUE, "value")),
                   BigmapEvent("copy", 3, EmptyBigmapKey, "", Prim("", FALSE, "nil")) >>
          [] x = "d_strict" ->
                << BigmapEvent("update", 1, "k1", "h1", Prim("v1", TRUE, "value")),
                   BigmapEvent("update", 1, "k4", "h4", Prim("v4", FALSE, "nil")),
                   BigmapEvent("remove", 2, "k3", "h3", Prim("", FALSE, "nil")) >>
          [] x = "d_nokey" ->
                << BigmapEvent("update", 1, EmptyBigmapKey, "", Prim("v5", TRUE, "value")),
                   BigmapEvent("remove", 2, EmptyBigmapKey, "", Prim("", FALSE, "nil")) >>
          [] x = "d_none" -> << >>]
BigmapEventsUnmarshalBinary(buf) ==
    IF buf \in DOMAIN DiffBlobs THEN Parsed(DiffBlobs[buf]) ELSE Failed(<<>>)

\* the types a ContractScript yields: ContractScript.Types()
ScriptTypes(bigmapIds) ==
    [param |-> "param_type", store |-> "storage_type", eps |-> "entrypoints",
     bigmaps |-> [i \in bigmapIds |-> "big_map"]]
\* what WithScript(nil) and a fresh Op hold
NoTypes == [param |-> NoType, store |-> NoType, eps |-> "", bigmaps |-> [i \in {} |-> "big_map"]]

\* micheline.Type.Left() and Right() of a big_map type; Prim.BuildType()
TypeLeft(typ) == typ \o ".key"
TypeRight(typ) == typ \o ".value"
BuildType(key) == "built(" \o key \o ")"

-----------------------------------------------------------------------------
(* The Op record (op.go, type Op).  The fields no decoder of the model     *)
(* writes (PrevBaker, Source, Offender, Accuser, Value, Power, Limit,      *)
(* Confirmations, BatchVolume, NOps, Metadata) are left out.  Batch and    *)
(* Internal hold child operations [Id, Internal].                          *)

NilParameters == [nil |-> TRUE, Entrypoint |-> "", Prim |-> NilPtr, Value |-> NilValue]
NilStorage == [nil |-> TRUE, Prim |-> NilPtr, Value |-> NilValue]
NilMeta == [nil |-> TRUE, Contract |-> "", BigmapId |-> 0, UpdateTime |-> ZeroTime,
            UpdateHeight |-> Int64(0)]
NoKey == [key |-> "", typ |-> NoType]
NilRaw == [nil |-> TRUE, v |-> JNull]

ZeroOp ==
    [Id |-> Int64(0), Hash |-> "", Type |-> "", Block |-> "",
     Timestamp |-> ZeroTime, Height |-> Int64(0), Cycle |-> Int64(0),
     Counter |-> Int64(0), OpN |-> Int64(0), OpP |-> Int64(0), Status |-> "",
     IsSuccess |-> FALSE, IsContract |-> FALSE, IsBatch |-> FALSE,
     IsEvent |-> FALSE, IsInternal |-> FALSE, GasLimit |-> Int64(0),
     GasUsed |-> Int64(0), StorageLimit |-> Int64(0),
     StoragePaid |-> Int64(0), Volume |-> ZeroFloat, Fee |-> ZeroFloat,
     Reward |-> ZeroFloat, Deposit |-> ZeroFloat, Burned |-> ZeroFloat,
     TDD |-> ZeroFloat, SenderId |-> Int64(0), ReceiverId |-> Int64(0),
     CreatorId |-> Int64(0), BakerId |-> Int64(0), Sender |-> "",
     Receiver |-> "", Creator |-> "", Baker |-> "", Data |-> NilRaw,
     Errors |-> NilRaw, Parameters |-> NilParameters, Storage |-> NilStorage,
     BigmapDiff |-> <<>>, Entrypoint |-> "", Batch |-> <<>>,
     Internal |-> <<>>, columns |-> <<>>, types |-> NoTypes,
     withPrim |-> FALSE, withMeta |-> FALSE, onError |-> 0]

\* Op.Cursor
OpCursor(op) ==
    LET op1 == IF Len(op.Batch) > 0 THEN op.Batch[Len(op.Batch)] ELSE op
        op2 == IF Len(op1.Internal) > 0 THEN op1.Internal[Len(op1.Internal)] ELSE op1
    IN  op2.Id

\* Op.WithColumns, Op.WithPrim, Op.WithMeta, Op.OnError
OpWithColumns(op, cols) == [op EXCEPT !.columns = cols]
OpWithPrim(op, v) == [op EXCEPT !.withPrim = v]
OpWithMeta(op, v) == [op EXCEPT !.withMeta = v]
OpOnError(op, action) == [op EXCEPT !.onError = action]

\* Op.WithScript: script is the types of a ContractScript, or "nil"
NilScript == [nil |-> TRUE, types |-> NoTypes]
Script(types) == [nil |-> FALSE, types |-> types]
OpWithScript(op, script) ==
    IF ~script.nil THEN [op EXCEPT !.types = script.types]
    ELSE [op EXCEPT !.types = NoTypes]

\* Op.WithTypes
OpWithTypes(op, types) == [op EXCEPT !.types = types]

(* The columns of Op.UnmarshalJSONBrief, grouped by the parsing rule of    *)
(* their case, and the field each case assigns.                            *)
OpUintCols == {"id", "sender_id", "receiver_id", "creator_id", "baker_id"}
OpIntCols == {"height", "cycle", "counter", "op_n", "op_p", "gas_limit", "gas_used",
              "storage_limit", "storage_paid"}
OpBoolCols == {"is_success", "is_contract", "is_batch", "is_event", "is_internal"}
OpFloatCols == {"volume", "fee", "reward", "deposit", "burned", "days_destroyed"}
OpAddrCols == {"sender", "receiver", "creator", "baker"}
OpEnumCols == {"type", "status"}
OpRawCols == {"data", "errors"}
OpStringCols == OpAddrCols \cup OpEnumCols \cup
                {"hash", "block", "entrypoint", "parameters", "storage", "big_map_diff"}
OpNumberCols == OpUintCols \cup OpIntCols \cup OpBoolCols \cup OpFloatCols \cup {"time"}
OpColumns == OpStringCols \cup OpNumberCols \cup OpRawCols

OpField(v) ==
    CASE v = "id" -> "Id" [] v = "hash" -> "Hash" [] v = "type" -> "Type"
      [] v = "block" -> "Block" [] v = "time" -> "Timestamp" [] v = "height" -> "Height"
      [] v = "cycle" -> "Cycle" [] v = "counter" -> "Counter" [] v = "op_n" -> "OpN"
      [] v = "op_p" -> "OpP" [] v = "status" -> "Status" [] v = "is_success" -> "IsSuccess"
      [] v = "is_contract" -> "IsContract" [] v = "is_batch" -> "IsBatch"
      [] v = "is_event" -> "IsEvent" [] v = "is_internal" -> "IsInternal"
      [] v = "gas_limit" -> "GasLimit" [] v = "gas_used" -> "GasUsed"
      [] v = "storage_limit" -> "StorageLimit" [] v = "storage_paid" -> "StoragePaid"
      [] v = "volume" -> "Volume" [] v = "fee" -> "Fee" [] v = "reward" -> "Reward"
      [] v = "deposit" -> "Deposit" [] v = "burned" -> "Burned"
      [] v = "days_destroyed" -> "TDD" [] v = "sender_id" -> "SenderId"
      [] v = "receiver_id" -> "ReceiverId" [] v = "creator_id" -> "CreatorId"
      [] v = "baker_id" -> "BakerId" [] v = "sender" -> "Sender"
      [] v = "receiver" -> "Receiver" [] v = "creator" -> "Creator" [] v = "baker" -> "Baker"
      [] v = "data" -> "Data" [] v = "errors" -> "Errors"
      [] v = "entrypoint" -> "Entrypoint" [] v = "parameters" -> "Parameters"
      [] v = "storage" -> "Storage" [] v = "big_map_diff" -> "BigmapDiff"

\* the outcome of one case of the switch: the scratch record after it, and
\* how the case ended ("ok": err == nil, "error": err != nil, "panic": a
\* failed type assertion)
Step(op, out) == [op |-> op, out |-> out]

\* the scalar cases: f.(json.Number) or f.(string), then the parser of the rule
OpScalarCase(op, v, f) ==
    LET res == CASE v \in OpUintCols -> ParseUint(f.n)
                 [] v \in OpIntCols \ {"op_n", "op_p"} -> ParseInt(f.n)
                 [] v \in {"op_n", "op_p"} -> Atoi(f.n)
                 [] v \in OpBoolCols -> ParseBool(f.n)
                 [] v \in OpFloatCols -> ParseFloat(f.n)
                 [] v \in OpAddrCols -> ParseAddress(f.t)
                 [] v = "hash" -> ParseOpHash(f.t)
                 [] v = "block" -> ParseBlockHash(f.t)
                 [] v = "type" -> Parsed(ParseOpType(f.t))
                 [] v = "status" -> Parsed(ParseOpStatus(f.t))
    IN  Step([op EXCEPT ![OpField(v)] = res.v], IF res.ok THEN "ok" ELSE "error")

\* case "time": time.Unix(0, ts*1000000).UTC(), the product taken in int64
OpTimeCase(op, f) ==
    LET ts == ParseInt(f.n)
    IN  IF ts.ok
        THEN Step([op EXCEPT !.Timestamp =
                       TimeUnixNano(WrapInt64(ts.v.neg, BigMulMillion(ts.v.num)))], "ok")
        ELSE Step(op, "error")

\* case "data", "errors": json.Marshal(f) of any decoded value
OpRawCase(op, v, f) == Step([op EXCEPT ![OpField(v)] = [nil |-> FALSE, v |-> f]], "ok")

\* case "entrypoint"
OpEntrypointCase(op, f) ==
    LET p == IF op.Parameters.nil THEN [NilParameters EXCEPT !.nil = FALSE] ELSE op.Parameters
    IN  Step([op EXCEPT !.Parameters = [p EXCEPT !.Entrypoint = f.t], !.Entrypoint = f.t], "ok")

\* case "parameters"
OpParametersCase(o_, op, f) ==
    LET buf == HexDecodeString(f.t)
        params == ParametersUnmarshalBinary(buf.v)
        m == MapEntrypoint(params.v, o_.types.param)
        val == ValueMap(m.epType, m.prim, o_.onError)
        cp == [nil |-> FALSE, Entrypoint |-> params.v.Entrypoint,
               Prim |-> IF o_.withPrim THEN Ptr(m.prim.name) ELSE NilPtr,
               Value |-> val.v]
    IN  IF ~buf.ok THEN Step(op, "error")
        ELSE IF buf.v = "" THEN Step(op, "ok")
        ELSE IF ~params.ok THEN Step(op, "error")
        ELSE Step([op EXCEPT !.Parameters = cp], IF val.ok THEN "ok" ELSE "error")

\* case "storage"
OpStorageCase(o_, op, f) ==
    LET buf == HexDecodeString(f.t)
        prim == PrimUnmarshalBinary(buf.v)
        val == ValueMap(o_.types.store, prim.v, o_.onError)
        st == [nil |-> FALSE, Prim |-> IF o_.withPrim THEN Ptr(prim.v.name) ELSE NilPtr,
               Value |-> NilValue]
    IN  IF ~buf.ok THEN Step(op, "error")
        ELSE IF buf.v = "" THEN Step(op, "ok")
        ELSE IF ~prim.ok THEN Step(op, "error")
        ELSE IF ~TypeIsValid(o_.types.store) THEN Step([op EXCEPT !.Storage = st], "ok")
        ELSE Step([op EXCEPT !.Storage = [st EXCEPT !.Value = val.v]],
                  IF val.ok THEN "ok" ELSE "error")

\* the zero BigmapUpdate, as make([]BigmapUpdate, n) fills the slice
ZeroBigmapUpdate ==
    [Action |-> "", BigmapId |-> 0, KeyType |-> NoType, ValueType |-> NoType,
     SourceId |-> 0, DestId |-> 0, KeyTypePrim |-> NilPtr, ValueTypePrim |-> NilPtr,
     Key |-> NoKey, Hash |-> "", Meta |-> NilMeta, KeyPrim |-> NilPtr,
     ValuePrim |-> NilPtr, Value |-> NilValue]

\* case DiffActionAlloc, DiffActionCopy: the type annotations and the
\* source and destination ids; the primitives of the types are kept when the
\* scratch record op asks for them
OpBigmapAllocCopy(op, v, upd) ==
    LET a == [upd EXCEPT !.KeyType = "typedef(" \o v.KeyType \o ")",
                         !.ValueType = "typedef(" \o v.ValueType \o ")",
                         !.SourceId = v.SourceId, !.DestId = v.DestId]
    IN  Step(IF op.withPrim
             THEN [a EXCEPT !.KeyTypePrim = Ptr(v.KeyType), !.ValueTypePrim = Ptr(v.ValueType)]
             ELSE a, "ok")

\* default case, the part for update and remove: the key and its hash unless
\* the key is the empty one, the metadata and the primitive of the key
OpBigmapKeyPart(o_, op, v, upd, ktyp) ==
    LET withKey == IF v.Key # EmptyBigmapKey
                   THEN [upd EXCEPT !.Key = [key |-> v.Key, typ |-> ktyp], !.Hash = v.KeyHash]
                   ELSE upd
        withMeta == IF o_.withMeta
                    THEN [withKey EXCEPT !.Meta = [nil |-> FALSE, Contract |-> op.Receiver,
                                                   BigmapId |-> v.Id,
                                                   UpdateTime |-> op.Timestamp,
                                                   UpdateHeight |-> op.Height]]
                    ELSE withKey
    IN  IF o_.withPrim THEN [withMeta EXCEPT !.KeyPrim = Ptr(v.Key)] ELSE withMeta

\* default case, the part for update only: the primitive of the value, and
\* the value when its type is known
OpBigmapValuePart(o_, v, rec, vtyp) ==
    LET val == ValueMap(vtyp, v.Value, o_.onError)
        withPrim == IF o_.withPrim THEN [rec EXCEPT !.ValuePrim = Ptr(v.Value.name)] ELSE rec
    IN  IF ~TypeIsValid(vtyp) THEN Step(withPrim, "ok")
        ELSE Step([withPrim EXCEPT !.Value = val.v], IF val.ok THEN "ok" ELSE "error")

\* a default case that unpacks a value for remove records too
OpBigmapDefaultCase_AnyAction(o_, op, v, upd, ktyp, vtyp) ==
    OpBigmapValuePart(o_, v, OpBigmapKeyPart(o_, op, v, upd, ktyp), vtyp)

\* default case of the switch over the action
OpBigmapDefaultCase(o_, op, v, upd, ktyp, vtyp) ==
    IF v.Action = "update"
    THEN OpBigmapValuePart(o_, v, OpBigmapKeyPart(o_, op, v, upd, ktyp), vtyp)
    ELSE Step(OpBigmapKeyPart(o_, op, v, upd, ktyp), "ok")

\* the body of the loop over the big-map events: the record built for event
\* v while the scratch record is op and the target is o_
OpBigmapUpdate(o_, op, v) ==
    LET known == v.Id \in DOMAIN o_.types.bigmaps
        ktyp == IF known THEN TypeLeft(o_.types.bigmaps[v.Id]) ELSE BuildType(v.Key)
        vtyp == IF known THEN TypeRight(o_.types.bigmaps[v.Id]) ELSE NoType
        upd == [ZeroBigmapUpdate EXCEPT !.Action = v.Action, !.BigmapId = v.Id]
    IN  IF v.Action \in {"alloc", "copy"} THEN OpBigmapAllocCopy(op, v, upd)
        ELSE OpBigmapDefaultCase(o_, op, v, upd, ktyp, vtyp)

\* the loop over the events: stops at the first event whose value fails to
\* project; the entries after it stay zero
RECURSIVE OpBigmapLoop(_, _, _, _, _)

\* The pointers the records keep are addresses of fields of the loop variable
\* v (&v.Key, &v.Value, &v.KeyType, &v.ValueType).  When the loop has one
\* variable for all its iterations, every pointer kept so far reads the
\* event the variable holds now; when each iteration has its own, a pointer
\* reads the event of its iteration.
OpBigmapSharedPointers(u, v) ==
    [u EXCEPT !.KeyPrim = IF @.nil THEN @ ELSE Ptr(v.Key),
              !.ValuePrim = IF @.nil THEN @ ELSE Ptr(v.Value.name),
              !.KeyTypePrim = IF @.nil THEN @ ELSE Ptr(v.KeyType),
              !.ValueTypePrim = IF @.nil THEN @ ELSE Ptr(v.ValueType)]
OpBigmapPointers(acc, v) ==
    IF sharedLoopVar THEN [j \in DOMAIN acc |-> OpBigmapSharedPointers(acc[j], v)] ELSE acc

\* the end of an iteration that built r for event i
OpBigmapAfterUpdate(o_, op, bmd, i, acc, r) ==
    IF r.out # "ok" THEN Step(OpBigmapPointers([acc EXCEPT ![i] = r.op], bmd[i]), r.out)
    ELSE OpBigmapLoop(o_, op, bmd, i + 1, OpBigmapPointers([acc EXCEPT ![i] = r.op], bmd[i]))

OpBigmapLoop(o_, op, bmd, i, acc) ==
    IF i > Len(bmd) THEN Step(acc, "ok")
    ELSE OpBigmapAfterUpdate(o_, op, bmd, i, acc, OpBigmapUpdate(o_, op, bmd[i]))

\* case "big_map_diff"
OpBigmapDiffSet(op, r) == Step([op EXCEPT !.BigmapDiff = r.op], r.out)
OpBigmapDiffEvents(o_, op, bmd) ==
    IF ~bmd.ok THEN Step(op, "error")
    ELSE OpBigmapDiffSet(op, OpBigmapLoop(o_, op, bmd.v, 1,
                                          [i \in 1..Len(bmd.v) |-> ZeroBigmapUpdate]))
OpBigmapDiffCase(o_, op, f) ==
    LET buf == HexDecodeString(f.t)
    IN  IF ~buf.ok THEN Step(op, "error")
        ELSE IF buf.v = "" THEN Step(op, "ok")
        ELSE OpBigmapDiffEvents(o_, op, BigmapEventsUnmarshalBinary(buf.v))

\* the cases of the switch: the type assertion of the case, then the case
OpKnownCase(o_, op, v, f) ==
    IF v \in OpRawCols THEN OpRawCase(op, v, f)
    ELSE IF v \in OpNumberCols /\ f.k # "num" THEN Step(op, "panic")
    ELSE IF v \in OpStringCols /\ f.k # "str" THEN Step(op, "panic")
    ELSE IF v = "time" THEN OpTimeCase(op, f)
    ELSE IF v = "entrypoint" THEN OpEntrypointCase(op, f)
    ELSE IF v = "parameters" THEN OpParametersCase(o_, op, f)
    ELSE IF v = "storage" THEN OpStorageCase(o_, op, f)
    ELSE IF v = "big_map_diff" THEN OpBigmapDiffCase(o_, op, f)
    ELSE OpScalarCase(op, v, f)

\* a decoder that rejects the columns it does not know
OpBriefCase_RejectUnknown(o_, op, v, f) ==
    IF v \notin OpColumns THEN Step(op, "error") ELSE OpKnownCase(o_, op, v, f)

\* one iteration of the loop over the columns, for a value f that is not
\* nil: a column name without a case does nothing
OpBriefCase(o_, op, v, f) ==
    IF v \notin OpColumns THEN Step(op, "ok") ELSE OpKnownCase(o_, op, v, f)

\* the loop over o.columns: unpacked[i] panics when i is past the end
RECURSIVE OpBriefLoop(_, _, _, _)

\* the end of an iteration whose case gave r: the loop returns at an error
\* and goes on to column i + 1 otherwise
OpBriefAfterCase(o_, r, unpacked, i) ==
    IF r.out # "ok" THEN r ELSE OpBriefLoop(o_, r.op, unpacked, i + 1)

OpBriefLoop(o_, op, unpacked, i) ==
    IF i > Len(o_.columns) THEN Step(op, "ok")
    ELSE IF i > Len(unpacked) THEN Step(op, "panic")
    ELSE IF unpacked[i].k = "null" THEN OpBriefLoop(o_, op, unpacked, i + 1)
    ELSE OpBriefAfterCase(o_, OpBriefCase(o_, op, o_.columns[i], unpacked[i]), unpacked, i)

(* A row of a batch, or the data handed to a row decoder: form is "array"  *)
(* (a JSON array of values), "object" (a JSON object giving id, batch and  *)
(* internal for an Op, row_id for a Block) or "null"; pad says that an     *)
(* array is written with white space inside its brackets.                  *)
NoObject == [Id |-> Int64(0), Batch |-> <<>>, Internal |-> <<>>]
ArrayRow(vals) == [form |-> "array", vals |-> vals, obj |-> NoObject, pad |-> FALSE]
PaddedEmptyRow == [form |-> "array", vals |-> <<>>, obj |-> NoObject, pad |-> TRUE]
ObjectRow(fields) == [form |-> "object", vals |-> <<>>, obj |-> fields, pad |-> FALSE]
NullRow == [form |-> "null", vals |-> <<>>, obj |-> NoObject, pad |-> FALSE]

\* len(data) == 2: of the rows of the model only the empty array written
\* without white space, "[]", is two bytes long
RawLenIs2(data) == data.form = "array" /\ Len(data.vals) = 0 /\ ~data.pad

\* the result of a decoder call: the target after it and how it ended
\* ("nil": returned nil, "error": returned an error, "panic")
Ret(target, out) == [target |-> target, out |-> out]

\* the end of the decoder after a loop that gave r: the scratch record is
\* assigned to the target (*o = op) only when the loop met no error
OpBriefReturn(o_, r) == IF r.out = "ok" THEN Ret(r.op, "nil") ELSE Ret(o_, r.out)

\* a decoder that fills the target itself instead of a scratch record
OpUnmarshalJSONBrief_InPlace(o_, data) ==
    IF data.form = "object" THEN Ret(o_, "error")
    ELSE LET r == OpBriefLoop(o_, o_, data.vals, 1)
         IN  Ret(r.op, IF r.out = "ok" THEN "nil" ELSE r.out)

\* Op.UnmarshalJSONBrief: a JSON object does not decode into the slice of
\* values (an error), null decodes into the empty slice
OpUnmarshalJSONBrief(o_, data) ==
    IF data.form = "object" THEN Ret(o_, "error")
    ELSE OpBriefReturn(o_, OpBriefLoop(o_, ZeroOp, data.vals, 1))

-----------------------------------------------------------------------------
(* The Block record (block.go, type Block).  The fields the columnar       *)
(* decoder never writes (FollowerHash, Metadata, Rights, Ops) are left out.*)

ZeroBlock ==
    [RowId |-> Int64(0), ParentId |-> Int64(0), Hash |-> "",
     ParentHash |-> NilPtr, IsOrphan |-> FALSE, Height |-> Int64(0),
     Cycle |-> Int64(0), IsCycleSnapshot |-> FALSE, Timestamp |-> ZeroTime,
     Solvetime |-> Int64(0), Version |-> Int64(0), Validation |-> Int64(0),
     Fitness |-> Int64(0), Priority |-> Int64(0), Nonce |-> "",
     VotingPeriodKind |-> "", BakerId |-> Int64(0), SlotMask |-> "",
     NSlotsEndorsed |-> Int64(0), NOps |-> Int64(0), NOpsFailed |-> Int64(0),
     NOpsContract |-> Int64(0), NOpsImplicit |-> Int64(0), NTx |-> Int64(0),
     NActivation |-> Int64(0), NSeedNonce |-> Int64(0),
     N2Baking |-> Int64(0), N2Endorsement |-> Int64(0),
     NEndorsement |-> Int64(0), NDelegation |-> Int64(0),
     NReveal |-> Int64(0), NOrigination |-> Int64(0), NProposal |-> Int64(0),
     NBallot |-> Int64(0), Volume |-> ZeroFloat, Fee |-> ZeroFloat,
     Reward |-> ZeroFloat, Deposit |-> ZeroFloat, UnfrozenFees |-> ZeroFloat,
     UnfrozenRewards |-> ZeroFloat, UnfrozenDeposits |-> ZeroFloat,
     ActivatedSupply |-> ZeroFloat, BurnedSupply |-> ZeroFloat,
     SeenAccounts |-> Int64(0), NewAccounts |-> Int64(0),
     NewImplicitAccounts |-> Int64(0), NewManagedAccounts |-> Int64(0),
     NewContracts |-> Int64(0), ClearedAccounts |-> Int64(0),
     FundedAccounts |-> Int64(0), GasLimit |-> Int64(0),
     GasUsed |-> Int64(0), GasPrice |-> ZeroFloat, StorageSize |-> Int64(0),
     TDD |-> ZeroFloat, PctAccountReuse |-> ZeroFloat, Baker |-> "",
     LbEscapeVote |-> FALSE, LbEscapeEma |-> Int64(0), columns |-> <<>>]

\* Block.WithColumns
BlockWithColumns(blk, cols) == [blk EXCEPT !.columns = cols]

(* The columns of Block.UnmarshalJSONBrief, grouped by the parsing rule of *)
(* their case, and the field each case assigns.                            *)
BlockUintCols == {"row_id", "parent_id", "fitness", "baker_id"}
BlockIntCols == {"height", "cycle", "solvetime", "version",
                 "validation_pass", "priority", "n_endorsed_slots", "n_ops",
                 "n_ops_failed", "n_ops_contract", "n_ops_implicit", "n_tx",
                 "n_activation", "n_seed_nonce_revelation",
                 "n_double_baking_evidence",
                 "n_double_endorsement_evidence", "n_endorsement",
                 "n_delegation", "n_reveal", "n_origination", "n_proposal",
                 "n_ballot", "n_accounts", "n_new_accounts",
                 "n_new_implicit", "n_new_managed", "n_new_contracts",
                 "n_cleared_accounts", "n_funded_accounts", "gas_limit",
                 "gas_used", "storage_size", "lb_esc_ema"}
BlockBoolCols == {"is_orphan", "is_cycle_snapshot", "lb_esc_vote"}
BlockFloatCols == {"volume", "fee", "reward", "deposit", "unfrozen_fees",
                   "unfrozen_rewards", "unfrozen_deposits",
                   "activated_supply", "burned_supply", "gas_price",
                   "days_destroyed", "pct_account_reuse"}
BlockTextCols == {"nonce", "slot_mask"}
BlockStringCols == BlockTextCols \cup {"hash", "predecessor", "voting_period_kind", "baker"}
BlockNumberCols == BlockUintCols \cup BlockIntCols \cup BlockBoolCols \cup BlockFloatCols \cup {"time"}
BlockColumns == BlockStringCols \cup BlockNumberCols

BlockField(v) ==
    CASE v = "row_id" -> "RowId" [] v = "parent_id" -> "ParentId"
      [] v = "hash" -> "Hash" [] v = "predecessor" -> "ParentHash"
      [] v = "is_orphan" -> "IsOrphan" [] v = "height" -> "Height"
      [] v = "cycle" -> "Cycle" [] v = "is_cycle_snapshot" -> "IsCycleSnapshot"
      [] v = "time" -> "Timestamp" [] v = "solvetime" -> "Solvetime"
      [] v = "version" -> "Version" [] v = "validation_pass" -> "Validation"
      [] v = "fitness" -> "Fitness" [] v = "priority" -> "Priority"
      [] v = "nonce" -> "Nonce"
      [] v = "voting_period_kind" -> "VotingPeriodKind"
      [] v = "baker_id" -> "BakerId" [] v = "slot_mask" -> "SlotMask"
      [] v = "n_endorsed_slots" -> "NSlotsEndorsed" [] v = "n_ops" -> "NOps"
      [] v = "n_ops_failed" -> "NOpsFailed"
      [] v = "n_ops_contract" -> "NOpsContract"
      [] v = "n_ops_implicit" -> "NOpsImplicit" [] v = "n_tx" -> "NTx"
      [] v = "n_activation" -> "NActivation"
      [] v = "n_seed_nonce_revelation" -> "NSeedNonce"
      [] v = "n_double_baking_evidence" -> "N2Baking"
      [] v = "n_double_endorsement_evidence" -> "N2Endorsement"
      [] v = "n_endorsement" -> "NEndorsement"
      [] v = "n_delegation" -> "NDelegation" [] v = "n_reveal" -> "NReveal"
      [] v = "n_origination" -> "NOrigination"
      [] v = "n_proposal" -> "NProposal" [] v = "n_ballot" -> "NBallot"
      [] v = "volume" -> "Volume" [] v = "fee" -> "Fee"
      [] v = "reward" -> "Reward" [] v = "deposit" -> "Deposit"
      [] v = "unfrozen_fees" -> "UnfrozenFees"
      [] v = "unfrozen_rewards" -> "UnfrozenRewards"
      [] v = "unfrozen_deposits" -> "UnfrozenDeposits"
      [] v = "activated_supply" -> "ActivatedSupply"
      [] v = "burned_supply" -> "BurnedSupply"
      [] v = "n_accounts" -> "SeenAccounts"
      [] v = "n_new_accounts" -> "NewAccounts"
      [] v = "n_new_implicit" -> "NewImplicitAccounts"
      [] v = "n_new_managed" -> "NewManagedAccounts"
      [] v = "n_new_contracts" -> "NewContracts"
      [] v = "n_cleared_accounts" -> "ClearedAccounts"
      [] v = "n_funded_accounts" -> "FundedAccounts"
      [] v = "gas_limit" -> "GasLimit" [] v = "gas_used" -> "GasUsed"
      [] v = "gas_price" -> "GasPrice" [] v = "storage_size" -> "StorageSize"
      [] v = "days_destroyed" -> "TDD"
      [] v = "pct_account_reuse" -> "PctAccountReuse" [] v = "baker" -> "Baker"
      [] v = "lb_esc_vote" -> "LbEscapeVote"
      [] v = "lb_esc_ema" -> "LbEscapeEma"

\* the scalar cases: f.(json.Number) or f.(string), then the parser of the rule
BlockScalarCase(block, v, f) ==
    LET res == CASE v \in BlockUintCols -> ParseUint(f.n)
                 [] v \in BlockIntCols
                      /\ v \in {"height", "cycle", "gas_limit", "gas_used",
                                "storage_size", "lb_esc_ema"} -> ParseInt(f.n)
                 [] v \in BlockIntCols
                      /\ v \notin {"height", "cycle", "gas_limit", "gas_used",
                                   "storage_size", "lb_esc_ema"} -> Atoi(f.n)
                 [] v \in BlockBoolCols -> ParseBool(f.n)
                 [] v \in BlockFloatCols -> ParseFloat(f.n)
                 [] v \in BlockTextCols -> Parsed(f.t)
                 [] v = "hash" -> ParseBlockHash(f.t)
                 [] v = "baker" -> ParseAddress(f.t)
                 [] v = "voting_period_kind" -> Parsed(ParseVotingPeriod(f.t))
    IN  Step([block EXCEPT ![BlockField(v)] = res.v], IF res.ok THEN "ok" ELSE "error")

\* case "predecessor": the field is set only when the hash parses
BlockPredecessorCase(block, f) ==
    LET h == ParseBlockHash(f.t)
    IN  IF h.ok THEN Step([block EXCEPT !.ParentHash = Ptr(h.v)], "ok")
        ELSE Step(block, "error")

\* case "time": time.Unix(0, ts*1000000).UTC(), the product taken in int64
BlockTimeCase(block, f) ==
    LET ts == ParseInt(f.n)
    IN  IF ts.ok
        THEN Step([block EXCEPT !.Timestamp =
                       TimeUnixNano(WrapInt64(ts.v.neg, BigMulMillion(ts.v.num)))], "ok")
        ELSE Step(block, "error")

\* one iteration of the loop over the columns, for a value f that is not nil
BlockBriefCase(block, v, f) ==
    IF v \notin BlockColumns THEN Step(block, "ok")
    ELSE IF v \in BlockNumberCols /\ f.k # "num" THEN Step(block, "panic")
    ELSE IF v \in BlockStringCols /\ f.k # "str" THEN Step(block, "panic")
    ELSE IF v = "time" THEN BlockTimeCase(block, f)
    ELSE IF v = "predecessor" THEN BlockPredecessorCase(block, f)
    ELSE BlockScalarCase(block, v, f)

\* the loop over b.columns: unpacked[i] panics when i is past the end
RECURSIVE BlockBriefLoop(_, _, _, _)

\* the end of an iteration whose case gave r
BlockBriefAfterCase(b_, r, unpacked, i) ==
    IF r.out # "ok" THEN r ELSE BlockBriefLoop(b_, r.op, unpacked, i + 1)

BlockBriefLoop(b_, block, unpacked, i) ==
    IF i > Len(b_.columns) THEN Step(block, "ok")
    ELSE IF i > Len(unpacked) THEN Step(block, "panic")
    ELSE IF unpacked[i].k = "null" THEN BlockBriefLoop(b_, block, unpacked, i + 1)
    ELSE BlockBriefAfterCase(b_, BlockBriefCase(block, b_.columns[i], unpacked[i]), unpacked, i)

\* Block.UnmarshalJSONBrief: a JSON object does not decode into the slice of
\* values (an error), null decodes into the empty slice
BlockBriefReturn(b_, r) == IF r.out = "ok" THEN Ret(r.op, "nil") ELSE Ret(b_, r.out)
BlockUnmarshalJSONBrief(b_, data) ==
    IF data.form = "object" THEN Ret(b_, "error")
    ELSE BlockBriefReturn(b_, BlockBriefLoop(b_, ZeroBlock, data.vals, 1))

\* Block.UnmarshalJSON: null and two-byte texts are left alone, arrays go to
\* the columnar decoder, objects to the structural decoder (which sets the
\* fields the object gives: row_id in the model)
BlockUnmarshalJSON(b_, data) ==
    IF data.form = "null" THEN Ret(b_, "nil")
    ELSE IF RawLenIs2(data) THEN Ret(b_, "nil")
    ELSE IF data.form = "array" THEN BlockUnmarshalJSONBrief(b_, data)
    ELSE Ret([b_ EXCEPT !.RowId = data.obj.Id], "nil")

\* Op.UnmarshalJSON: likewise (the object gives id, batch and internal)
OpUnmarshalJSON(o_, data) ==
    IF data.form = "null" THEN Ret(o_, "nil")
    ELSE IF RawLenIs2(data) THEN Ret(o_, "nil")
    ELSE IF data.form = "array" THEN OpUnmarshalJSONBrief(o_, data)
    ELSE Ret([o_ EXCEPT !.Id = data.obj.Id, !.Batch = data.obj.Batch,
                        !.Internal = data.obj.Internal], "nil")

\* OpList.Cursor
OpListCursor(list) ==
    IF Len(list.Rows) = 0 THEN Int64(0) ELSE list.Rows[Len(list.Rows)].Id

\* a cursor that names the first row instead of the last
BlockListCursor_First(list) ==
    IF Len(list.Rows) = 0 THEN Int64(0) ELSE list.Rows[1].RowId

\* BlockList.Cursor
BlockListCursor(list) ==
    IF Len(list.Rows) = 0 THEN Int64(0) ELSE list.Rows[Len(list.Rows)].RowId

-----------------------------------------------------------------------------
(* The batch decoders.                                                     *)

\* getTableColumn(data, columns, name): the text of the value a columnar row
\* holds for the named column, and whether it holds one
RECURSIVE JoinChars(_)
JoinChars(chars) == IF Len(chars) = 0 THEN "" ELSE chars[1] \o JoinChars(Tail(chars))
ValueText(f) ==
    CASE f.k = "num" -> JoinChars(f.n)
      [] f.k = "null" -> "null"
      [] OTHER -> f.t
ColumnIndex(columns, name) ==
    IF \E i \in 1..Len(columns) : columns[i] = name
    THEN CHOOSE i \in 1..Len(columns) :
            columns[i] = name /\ \A j \in 1..(i - 1) : columns[j] # name
    ELSE 0
GetTableColumn(data, columns, name) ==
    LET i == ColumnIndex(columns, name)
    IN  IF data.form = "array" /\ i > 0 /\ i <= Len(data.vals)
        THEN [ok |-> TRUE, s |-> ValueText(data.vals[i])]
        ELSE [ok |-> FALSE, s |-> ""]

\* Client.loadCachedContractScript: what the resolver can answer for an
\* address: the contract's script, no script (the contract is not found), or
\* an error (the fetch was cancelled or the transport failed); e is the
\* error value it returns
KnownScripts == {"KT1a"}
ResolverErrors == {"context canceled", "transport error"}
ResolverAnswers(addr) ==
    {[err |-> TRUE, e |-> x, script |-> NilScript] : x \in ResolverErrors} \cup
    (IF addr \in KnownScripts
     THEN {[err |-> FALSE, e |-> "", script |-> Script(ScriptTypes({1}))]}
     ELSE {[err |-> FALSE, e |-> "", script |-> NilScript]})
\* the answer of a row the resolver is not asked for
NoAnswer == [err |-> FALSE, e |-> "", script |-> NilScript]

\* a loop that reuses the record of the row before, types included
OpListNewOp_Reused(list) == [cur EXCEPT !.withPrim = list.withPrim, !.columns = list.columns]

\* the record OpList.UnmarshalJSON builds for a row before it decodes it
OpListNewOp(list) == [ZeroOp EXCEPT !.withPrim = list.withPrim, !.columns = list.columns]

\* a test that asks for the script of every row with a receiver
OpListNeedsScript_AnyReceiver(list, v) ==
    LET recv == GetTableColumn(v, list.columns, "receiver")
    IN  recv.ok /\ recv.s # "" /\ recv.s # "null"

\* whether the row asks for the contract script, and with which receiver text
OpListNeedsScript(list, v) ==
    LET is == GetTableColumn(v, list.columns, "is_contract")
        recv == GetTableColumn(v, list.columns, "receiver")
    IN  is.ok /\ is.s = "1" /\ recv.ok /\ recv.s # "" /\ recv.s # "null"

\* the address the resolver is asked for
OpListReceiver(list, v) == ParseAddress(GetTableColumn(v, list.columns, "receiver").s)

\* whether the iteration for row v reaches the resolver: the row asks for
\* the script and its receiver parses as an address
OpListAsksResolver(list, v) == OpListNeedsScript(list, v) /\ OpListReceiver(list, v).ok

\* the error values OpList.UnmarshalJSON makes itself, and the one a row
\* decoder returns
ErrNotArray == "OpList: expected JSON array"
ErrReceiver == "decode: invalid receiver address"
ErrRow == "row decode error"

\* an iteration that fails the call when the resolver finds no script
OpListRowScript_NotFoundFails(list, v, ans) ==
    IF ~OpListNeedsScript(list, v) THEN [out |-> "ok", err |-> "", op |-> OpListNewOp(list)]
    ELSE IF ~OpListReceiver(list, v).ok
        THEN [out |-> "error", err |-> ErrReceiver, op |-> OpListNewOp(list)]
    ELSE IF ans.err \/ ans.script.nil
        THEN [out |-> "error", err |-> "not found", op |-> OpListNewOp(list)]
    ELSE [out |-> "ok", err |-> "", op |-> OpWithScript(OpListNewOp(list), ans.script)]

\* an iteration that reports the resolver's error as a decode error
OpListRowScript_WrapError(list, v, ans) ==
    IF ~OpListNeedsScript(list, v) THEN [out |-> "ok", err |-> "", op |-> OpListNewOp(list)]
    ELSE IF ~OpListReceiver(list, v).ok
        THEN [out |-> "error", err |-> ErrReceiver, op |-> OpListNewOp(list)]
    ELSE IF ans.err THEN [out |-> "error", err |-> ErrRow, op |-> OpListNewOp(list)]
    ELSE [out |-> "ok", err |-> "", op |-> OpWithScript(OpListNewOp(list), ans.script)]

\* the first half of an iteration for row v, when the resolver (if it is
\* asked) answers ans: the record for the row, or the error the call
\* returns
OpListRowScript(list, v, ans) ==
    IF ~OpListNeedsScript(list, v) THEN [out |-> "ok", err |-> "", op |-> OpListNewOp(list)]
    ELSE IF ~OpListReceiver(list, v).ok
        THEN [out |-> "error", err |-> ErrReceiver, op |-> OpListNewOp(list)]
    ELSE IF ans.err THEN [out |-> "error", err |-> ans.e, op |-> OpListNewOp(list)]
    ELSE [out |-> "ok", err |-> "", op |-> OpWithScript(OpListNewOp(list), ans.script)]

\* BlockList.UnmarshalJSON, the loop over the rows from row i on
RECURSIVE BlockListLoop(_, _, _)

\* the end of an iteration that decoded row i with result r: the loop
\* returns at an error and appends the row otherwise
BlockListAfterRow(list, rows, i, r) ==
    IF r.out # "nil" THEN [list |-> list, out |-> r.out, at |-> i]
    ELSE BlockListLoop([list EXCEPT !.Rows = Append(@, [r.target EXCEPT !.columns = <<>>])],
                       rows, i + 1)

BlockListLoop(list, rows, i) ==
    IF i > Len(rows) THEN [list |-> list, out |-> "nil", at |-> i]
    ELSE BlockListAfterRow(list, rows, i,
             BlockUnmarshalJSON(BlockWithColumns(ZeroBlock, list.columns), rows[i]))

\* the data of a batch call: null, a JSON value that is no array, or an array
NullBatch == [form |-> "null", rows |-> <<>>]
ObjectBatch == [form |-> "object", rows |-> <<>>]
ArrayBatch(rows) == [form |-> "array", rows |-> rows]

\* BlockList.UnmarshalJSON
BlockListUnmarshalJSON(list, data) ==
    IF data.form = "null" THEN [list |-> list, out |-> "nil", at |-> 0]
    ELSE IF data.form # "array" THEN [list |-> list, out |-> "error", at |-> 0]
    ELSE BlockListLoop(list, data.rows, 1)

-----------------------------------------------------------------------------
(* The inputs of the model: column lists, and for each column the values a *)
(* row may hold for it: values the rule of the column accepts, values it   *)
(* rejects, null, and values of another JSON kind.                         *)

MaxBatch == 2     \* rows in one batch
MaxRows == 3      \* rows a collection holds over its batch decodes

RECURSIVE Perms(_)
Perms(S) ==
    IF S = {} THEN {<<>>}
    ELSE UNION {{<<x>> \o q : q \in Perms(S \ {x})} : x \in S}

OpColumnGroups ==
    { {"type", "is_contract", "volume"},
      {"id", "data", "foo"},
      {"receiver", "height", "time", "big_map_diff"},
      {"entrypoint", "parameters", "storage"} }
OpColumnLists ==
    UNION {Perms(g) : g \in OpColumnGroups} \cup {<<v>> : v \in OpColumns} \cup {<<>>}

\* the column lists a caller gives a record that already holds a decoded row
OpReuseColumnLists == {<<>>, <<"id">>}

BlockColumnGroups ==
    { {"row_id", "height", "predecessor"},
      {"time", "nonce", "is_orphan", "bar"} }
BlockColumnLists ==
    UNION {Perms(g) : g \in BlockColumnGroups} \cup {<<v>> : v \in BlockColumns} \cup {<<>>}

BlockReuseColumnLists == {<<>>, <<"row_id">>}

\* the numbers include the largest uint64 (2^64 - 1) and the first number
\* past the range of each parser (2^64 for uint64, 2^63 for int64 and int)
UintValues ==
    {JNum(<<"7">>), JNum(<<"-", "1">>), JNull, JStr("7"),
     JNum(<<"1", "8", "4", "4", "6", "7", "4", "4", "0", "7", "3", "7", "0", "9", "5", "5", "1", "6", "1", "5">>),
     JNum(<<"1", "8", "4", "4", "6", "7", "4", "4", "0", "7", "3", "7", "0", "9", "5", "5", "1", "6", "1", "6">>)}
IntValues ==
    {JNum(<<"5">>), JNum(<<"-", "3">>), JNum(<<"1", ".", "5">>), JNull,
     JNum(<<"9", "2", "2", "3", "3", "7", "2", "0", "3", "6", "8", "5", "4", "7", "7", "5", "8", "0", "8">>)}
\* the times include the largest int64 (2^63 - 1), whose product with
\* 1000000 is past the range of int64, and the first number past the range
TimeValues ==
    {JNum(<<"3">>), JStr("now"),
     JNum(<<"9", "2", "2", "3", "3", "7", "2", "0", "3", "6", "8", "5", "4", "7", "7", "5", "8", "0", "7">>),
     JNum(<<"9", "2", "2", "3", "3", "7", "2", "0", "3", "6", "8", "5", "4", "7", "7", "5", "8", "0", "8">>)}
BoolValues == {JNum(<<"1">>), JNum(<<"0">>), JNum(<<"2">>), JBool(TRUE)}
FloatValues == {JNum(<<"1", ".", "5">>), JNum(<<"-", "2">>), JNum(<<"1", "e", "3">>),
                JNum(<<"1", "E", "-", "2">>), JNum(<<"2", "e", "3", "0", "9">>), JStr("1.5")}
AddrValues == {JStr("KT1a"), JStr("bad"), JNull}
TextValues == {JStr("abc"), JNum(<<"1">>)}
OtherValues == {JStr("x"), JNum(<<"1">>), JBool(TRUE)}

OpValues(v) ==
    CASE v \in OpUintCols -> UintValues
      [] v = "height" -> {JNum(<<"5">>), JNull}
      [] v \in OpIntCols \ {"height"} -> IntValues
      [] v \in OpBoolCols -> BoolValues
      [] v \in OpFloatCols -> FloatValues
      [] v \in OpAddrCols -> AddrValues
      [] v = "time" -> TimeValues
      [] v = "hash" -> {JStr("opA"), JStr("bad")}
      [] v = "block" -> {JStr("BLa"), JStr("bad")}
      [] v = "type" -> {JStr("transaction"), JStr("weird")}
      [] v = "status" -> {JStr("applied"), JStr("weird"), JNum(<<"1">>)}
      [] v \in OpRawCols -> {JStr("payload"), JNum(<<"1">>)}
      [] v = "entrypoint" -> {JStr("transfer"), JNull}
      [] v = "parameters" -> {JStr("p_transfer"), JStr("p_mint"), JStr("p_raw"), JStr("p_opaque"),
                              JStr(""), JStr("zz"), JStr("ff"), JNull}
      [] v = "storage" -> {JStr("s_ledger"), JStr("s_odd"), JStr("ff"), JNum(<<"1">>)}
      [] v = "big_map_diff" -> {JStr("d_mixed"), JStr("d_strict"), JStr("d_nokey"), JStr("zz")}
      [] OTHER -> OtherValues

BlockValues(v) ==
    CASE v \in BlockUintCols -> UintValues
      [] v \in BlockIntCols -> IntValues
      [] v \in BlockBoolCols -> BoolValues
      [] v \in BlockFloatCols -> FloatValues
      [] v \in BlockTextCols -> TextValues
      [] v \in {"hash", "predecessor"} -> {JStr("BLa"), JStr("bad"), JNull}
      [] v = "baker" -> AddrValues
      [] v = "voting_period_kind" -> {JStr("proposal"), JStr("weird")}
      [] v = "time" -> TimeValues
      [] OTHER -> OtherValues

\* the value arrays that give each column of cols one of its values
RECURSIVE OpValueRows(_)
OpValueRows(cols) ==
    IF Len(cols) = 0 THEN {<<>>}
    ELSE {<<x>> \o r : x \in OpValues(cols[1]), r \in OpValueRows(Tail(cols))}
RECURSIVE BlockValueRows(_)
BlockValueRows(cols) ==
    IF Len(cols) = 0 THEN {<<>>}
    ELSE {<<x>> \o r : x \in BlockValues(cols[1]), r \in BlockValueRows(Tail(cols))}

\* those arrays, the same without their last value, and with one value more
WithLengths(rows) ==
    rows \cup {SubSeq(r, 1, Len(r) - 1) : r \in {q \in rows : Len(q) > 0}}
         \cup {Append(r, JNum(<<"9">>)) : r \in rows}

\* the data a caller hands to a row decoder
OpRowData(cols) ==
    {ArrayRow(r) : r \in WithLengths(OpValueRows(cols))} \cup
    {NullRow, ObjectRow([Id |-> Int64(5), Batch |-> <<>>, Internal |-> <<>>])}
BlockRowData(cols) ==
    {ArrayRow(r) : r \in WithLengths(BlockValueRows(cols))} \cup
    {NullRow, ObjectRow([Id |-> Int64(5), Batch |-> <<>>, Internal |-> <<>>])}

TypeChoices == {NoTypes, ScriptTypes({1})}

\* the column lists of the collections and the rows of their batches
OpListColumnLists ==
    { <<>>, <<"id">>, <<"id", "is_contract", "receiver", "storage">> }
Child(id, internal) == [Id |-> Int64(id), Internal |-> internal]
OpListRows(cols) ==
    IF cols = <<>> THEN
        { ObjectRow([Id |-> Int64(5), Batch |-> <<>>, Internal |-> <<>>]),
          ObjectRow([Id |-> Int64(10), Batch |-> <<Child(11, <<>>), Child(12, <<Child(13, <<>>)>>)>>,
                     Internal |-> <<>>]),
          ObjectRow([Id |-> Int64(20), Batch |-> <<>>, Internal |-> <<Child(21, <<>>)>>]),
          ObjectRow([Id |-> Int64(30), Batch |-> <<Child(31, <<>>)>>, Internal |-> <<Child(32, <<>>)>>]),
          ArrayRow(<<>>) }
    ELSE IF cols = <<"id">> THEN
        { ArrayRow(<<JNum(<<"7">>)>>), ArrayRow(<<JNum(<<"8">>)>>), ArrayRow(<<JNull>>),
          ArrayRow(<<JNum(<<"-", "1">>)>>), ArrayRow(<<JStr("7")>>),
          ArrayRow(<<>>), PaddedEmptyRow, NullRow }
    ELSE
        { ArrayRow(<<JNum(<<"7">>), JNum(<<"1">>), JStr("KT1a"), JStr("s_ledger")>>),
          ArrayRow(<<JNum(<<"8">>), JNum(<<"1">>), JStr("KT1b"), JStr("s_ledger")>>),
          ArrayRow(<<JNum(<<"9">>), JNum(<<"0">>), JStr("tz1a"), JStr("s_odd")>>),
          ArrayRow(<<JNum(<<"7">>), JNum(<<"1">>), JStr("bad"), JNull>>),
          ArrayRow(<<JNum(<<"7">>), JNum(<<"1">>), JNull, JStr("ff")>>),
          ArrayRow(<<JNum(<<"7">>), JNum(<<"1">>)>>),
          ArrayRow(<<>>) }

BlockListColumnLists == { <<>>, <<"row_id">>, <<"row_id", "height">> }
BlockListRows(cols) ==
    IF cols = <<>> THEN
        { ObjectRow([Id |-> Int64(5), Batch |-> <<>>, Internal |-> <<>>]),
          ObjectRow([Id |-> Int64(6), Batch |-> <<>>, Internal |-> <<>>]), ArrayRow(<<>>) }
    ELSE IF cols = <<"row_id">> THEN
        { ArrayRow(<<JNum(<<"7">>)>>), ArrayRow(<<JNum(<<"8">>)>>), ArrayRow(<<JNull>>),
          ArrayRow(<<JNum(<<"-", "1">>)>>), ArrayRow(<<JStr("7")>>),
          ArrayRow(<<>>), PaddedEmptyRow, NullRow }
    ELSE
        { ArrayRow(<<JNum(<<"7">>), JNum(<<"5">>)>>), ArrayRow(<<JNum(<<"8">>), JNull>>),
          ArrayRow(<<JNum(<<"9">>), JNum(<<"1", ".", "5">>)>>),
          ArrayRow(<<JNum(<<"7">>)>>), ArrayRow(<<>>) }

\* the batches of at most MaxBatch rows
RECURSIVE SeqsUpTo(_, _)
SeqsUpTo(S, n) ==
    IF n = 0 THEN {<<>>}
    ELSE SeqsUpTo(S, n - 1) \cup
         {Append(q, x) : q \in {r \in SeqsUpTo(S, n - 1) : Len(r) = n - 1}, x \in S}
Batches(rows) == {NullBatch, ObjectBatch} \cup {ArrayBatch(q) : q \in SeqsUpTo(rows, MaxBatch)}

-----------------------------------------------------------------------------
(* The state machine.  A caller works with one object: an Op or a Block it *)
(* configures and decodes single rows into, or an OpList or BlockList it   *)
(* decodes batches into.                                                   *)

NoCall == [fn |-> "none", data |-> NullRow, preOp |-> ZeroOp, preBlock |-> ZeroBlock, err |-> "",
           out |-> "none"]
EmptyOpList == [Rows |-> <<>>, withPrim |-> FALSE, columns |-> <<>>]
EmptyBlockList == [Rows |-> <<>>, columns |-> <<>>]

Init ==
    /\ o = ZeroOp
    /\ b = ZeroBlock
    /\ l = EmptyOpList
    /\ bl = EmptyBlockList
    /\ pc = "idle"
    /\ array = <<>>
    /\ idx = 0
    /\ cur = ZeroOp
    /\ base = 0
    /\ call = NoCall
    /\ lookups = <<>>
    /\ active = "none"
    /\ sharedLoopVar \in BOOLEAN

\* The setters assign on any receiver at any time, before a decode and after
\* it.  call keeps the last decoder call made on the object as it is now
\* configured, so a setter call starts it over.  After a call that returned
\* an error or panicked the record is what it was before the call, a state
\* in which every setter is enabled already: the caller of the model goes on
\* with a record after a call that returned nil, and the records it uses
\* again are those it decoded with a column list of OpReuseColumnLists.
OpConfigurable ==
    /\ active \in {"none", "op"}
    /\ \/ call.fn = "none"
       \/ call.out = "nil" /\ call.preOp.columns \in OpReuseColumnLists

\* the record holds a decoded row: a field that no setter writes is set
OpHoldsRow(op) ==
    [op EXCEPT !.columns = <<>>, !.types = NoTypes, !.withPrim = FALSE,
               !.withMeta = FALSE, !.onError = 0] # ZeroOp

\* Op.WithColumns: the column lists of the model for a fresh record, and
\* those for a record that is used again after a decode
WithColumns ==
    /\ OpConfigurable
    /\ \E cols \in (IF OpHoldsRow(o) THEN OpReuseColumnLists ELSE OpColumnLists) :
         o' = OpWithColumns(o, cols)
    /\ active' = "op" /\ call' = NoCall
    /\ UNCHANGED <<b, l, bl, pc, array, idx, cur, base, lookups, sharedLoopVar>>

\* Op.WithPrim
WithPrim ==
    /\ OpConfigurable
    /\ \E v \in BOOLEAN : o' = OpWithPrim(o, v)
    /\ active' = "op" /\ call' = NoCall
    /\ UNCHANGED <<b, l, bl, pc, array, idx, cur, base, lookups, sharedLoopVar>>

\* Op.WithMeta
WithMeta ==
    /\ OpConfigurable
    /\ \E v \in BOOLEAN : o' = OpWithMeta(o, v)
    /\ active' = "op" /\ call' = NoCall
    /\ UNCHANGED <<b, l, bl, pc, array, idx, cur, base, lookups, sharedLoopVar>>

\* Op.OnError
OnError ==
    /\ OpConfigurable
    /\ \E action \in {0, 1} : o' = OpOnError(o, action)
    /\ active' = "op" /\ call' = NoCall
    /\ UNCHANGED <<b, l, bl, pc, array, idx, cur, base, lookups, sharedLoopVar>>

\* Op.WithScript
WithScript ==
    /\ OpConfigurable
    /\ \E script \in {NilScript, Script(ScriptTypes({1}))} : o' = OpWithScript(o, script)
    /\ active' = "op" /\ call' = NoCall
    /\ UNCHANGED <<b, l, bl, pc, array, idx, cur, base, lookups, sharedLoopVar>>

\* Op.WithTypes
WithTypes ==
    /\ OpConfigurable
    /\ \E types \in TypeChoices : o' = OpWithTypes(o, types)
    /\ active' = "op" /\ call' = NoCall
    /\ UNCHANGED <<b, l, bl, pc, array, idx, cur, base, lookups, sharedLoopVar>>

\* a call of Op.UnmarshalJSONBrief on the configured Op; a caller goes on
\* with the record only after a call that returned nil
UnmarshalJSONBrief ==
    /\ active = "op" /\ call.out \in {"none", "nil"}
    /\ \E data \in OpRowData(o.columns) :
         \E r \in {OpUnmarshalJSONBrief(o, data)} :
             /\ o' = r.target
             /\ call' = [fn |-> "Op.UnmarshalJSONBrief", data |-> data, preOp |-> o,
                         preBlock |-> ZeroBlock, err |-> "", out |-> r.out]
    /\ UNCHANGED <<b, l, bl, pc, array, idx, cur, base, active, lookups, sharedLoopVar>>

\* the record holds a decoded row
BlockHoldsRow(blk) == [blk EXCEPT !.columns = <<>>] # ZeroBlock

\* Block.WithColumns: an assignment on any receiver at any time; as for an
\* Op, the caller of the model goes on after a call that returned nil and
\* uses again the records it decoded with a list of BlockReuseColumnLists
BlockWithColumnsCall ==
    /\ active \in {"none", "block"}
    /\ \/ call.fn = "none"
       \/ call.out = "nil" /\ call.preBlock.columns \in BlockReuseColumnLists
    /\ \E cols \in (IF BlockHoldsRow(b) THEN BlockReuseColumnLists ELSE BlockColumnLists) :
         b' = BlockWithColumns(b, cols)
    /\ active' = "block" /\ call' = NoCall
    /\ UNCHANGED <<o, l, bl, pc, array, idx, cur, base, lookups, sharedLoopVar>>

\* a call of Block.UnmarshalJSONBrief on the configured Block; a caller goes
\* on with the record only after a call that returned nil
BlockUnmarshalJSONBriefCall ==
    /\ active = "block" /\ call.out \in {"none", "nil"}
    /\ \E data \in BlockRowData(b.columns) :
         \E r \in {BlockUnmarshalJSONBrief(b, data)} :
             /\ b' = r.target
             /\ call' = [fn |-> "Block.UnmarshalJSONBrief", data |-> data, preOp |-> ZeroOp,
                         preBlock |-> b, err |-> "", out |-> r.out]
    /\ UNCHANGED <<o, l, bl, pc, array, idx, cur, base, active, lookups, sharedLoopVar>>

\* the record of a batch call: form is the JSON form of its data
ListCall(fn, form, out) == [NoCall EXCEPT !.fn = fn, !.data.form = form, !.out = out]
\* the record of a batch call that returned the error value e
ListCallError(fn, form, e) == [ListCall(fn, form, "error") EXCEPT !.err = e]
\* the record of a batch call that ended as a row decode did
ListCallRow(fn, out) == [ListCall(fn, "array", out) EXCEPT !.err = IF out = "error" THEN ErrRow ELSE ""]

\* the error of a query whose request failed before a response was decoded
ErrQuery == "query failed"
\* the record of a Run call that QueryTable ended without a call of the decoder
RunCallError(fn) == [NoCall EXCEPT !.fn = fn, !.out = "error", !.err = ErrQuery]

\* how OpList.UnmarshalJSON stands when it reaches the loop over the rows:
\* returned nil (null, or an array without rows), returned an error (no
\* array), or running
OpListBeginOut(data) ==
    IF data.form = "null" THEN "nil"
    ELSE IF data.form # "array" THEN "error"
    ELSE IF Len(data.rows) = 0 THEN "nil"
    ELSE "running"

\* OpList.UnmarshalJSON on the collection list, up to the loop over the rows
OpListBegin(list, data) ==
    /\ array' = data.rows
    /\ base' = Len(list.Rows)
    /\ lookups' = <<>>
    /\ IF data.form = "null" THEN
           /\ call' = ListCall("OpList.UnmarshalJSON", data.form, "nil")
           /\ pc' = "idle" /\ idx' = 0
       ELSE IF data.form # "array" THEN
           /\ call' = ListCallError("OpList.UnmarshalJSON", data.form, ErrNotArray)
           /\ pc' = "idle" /\ idx' = 0
       ELSE IF Len(data.rows) = 0 THEN
           /\ call' = ListCall("OpList.UnmarshalJSON", "array", "nil")
           /\ pc' = "idle" /\ idx' = 1
       ELSE
           /\ call' = ListCall("OpList.UnmarshalJSON", "array", "running")
           /\ pc' = "script" /\ idx' = 1

\* OpQuery.Run: the collection result is built and QueryTable is called with
\* it.  Either the request fails and Run returns nil and the error, or the
\* response is decoded into result by a call of OpList.UnmarshalJSON, which
\* goes on in the steps below.  l is result; the caller holds it (active is
\* "oplist") once Run has returned it, which is when the decode returned
\* nil.  After a decode that failed Run has returned nil and the error: active
\* stays "opquery" and the caller never sees result.
OpQueryRun ==
    /\ active = "none"
    /\ \E cols \in OpListColumnLists, prim \in BOOLEAN :
         \E result \in {[Rows |-> <<>>, withPrim |-> prim, columns |-> cols]} :
             /\ l' = result
             /\ \/ /\ call' = RunCallError("OpQuery.Run")
                   /\ active' = "opquery"
                   /\ UNCHANGED <<pc, array, idx, base, lookups>>
                \/ \E data \in Batches(OpListRows(cols)) :
                      /\ OpListBegin(result, data)
                      /\ active' = IF OpListBeginOut(data) = "nil" THEN "oplist" ELSE "opquery"
    /\ UNCHANGED <<o, b, bl, cur, sharedLoopVar>>

\* a call of OpList.UnmarshalJSON on the collection a query returned, up to
\* the loop over the rows; a caller decodes a further batch into the
\* collection only after a call that returned nil
OpListUnmarshalJSON ==
    /\ active = "oplist" /\ pc = "idle" /\ call.out \in {"none", "nil"}
    /\ \E data \in Batches(OpListRows(l.columns)) :
         /\ Len(l.Rows) + Len(data.rows) <= MaxRows
         /\ OpListBegin(l, data)
    /\ UNCHANGED <<o, b, l, bl, cur, active, sharedLoopVar>>

\* the first half of an iteration: the record for the row, with the types
\* of the receiver's script when the row is a contract call
OpListLoadScript ==
    /\ pc = "script"
    /\ \E ans \in (IF OpListAsksResolver(l, array[idx])
                   THEN ResolverAnswers(OpListReceiver(l, array[idx]).v)
                   ELSE {NoAnswer}) :
         \E r \in {OpListRowScript(l, array[idx], ans)} :
             /\ lookups' = IF OpListAsksResolver(l, array[idx])
                           THEN Append(lookups, [row |-> idx,
                                                 addr |-> OpListReceiver(l, array[idx]).v,
                                                 ans |-> ans, rows |-> Len(l.Rows)])
                           ELSE lookups
             /\ IF r.out = "ok"
                THEN cur' = r.op /\ pc' = "row" /\ UNCHANGED call
                ELSE /\ call' = ListCallError("OpList.UnmarshalJSON", "array", r.err)
                     /\ pc' = "idle" /\ UNCHANGED cur
    /\ UNCHANGED <<o, b, l, bl, array, idx, base, active, sharedLoopVar>>

\* the second half: the row is decoded and appended, and the call returns
\* after the last row; a Run whose decode returned nil returns the collection
OpListDecodeRow ==
    /\ pc = "row"
    /\ \E r \in {OpUnmarshalJSON(cur, array[idx])} :
           IF r.out # "nil" THEN
               /\ call' = ListCallRow("OpList.UnmarshalJSON", r.out)
               /\ pc' = "idle"
               /\ UNCHANGED <<l, idx>>
           ELSE
               /\ l' = [l EXCEPT !.Rows = Append(@, [r.target EXCEPT !.columns = <<>>])]
               /\ idx' = idx + 1
               /\ IF idx + 1 > Len(array)
                  THEN call' = ListCall("OpList.UnmarshalJSON", "array", "nil") /\ pc' = "idle"
                  ELSE pc' = "script" /\ UNCHANGED call
    /\ active' = IF pc' = "idle" /\ call'.out = "nil" THEN "oplist" ELSE active
    /\ UNCHANGED <<o, b, bl, array, cur, base, lookups, sharedLoopVar>>

\* BlockQuery.Run: the collection result is built and QueryTable is called
\* with it.  Either the request fails, or the response is decoded into result
\* by a call of BlockList.UnmarshalJSON.  bl is result; Run returns it when
\* the decode returned nil (active is "blocklist"), and nil and the error
\* otherwise (active is "blockquery": the caller never sees result).
BlockQueryRun ==
    /\ active = "none"
    /\ \E cols \in BlockListColumnLists :
         \E result \in {[Rows |-> <<>>, columns |-> cols]} :
             \/ /\ bl' = result
                /\ call' = RunCallError("BlockQuery.Run")
                /\ active' = "blockquery"
                /\ UNCHANGED <<array, idx, base>>
             \/ \E data \in Batches(BlockListRows(cols)) :
                   \E r \in {BlockListUnmarshalJSON(result, data)} :
                       /\ bl' = r.list
                       /\ idx' = r.at
                       /\ call' = ListCall("BlockList.UnmarshalJSON", data.form, r.out)
                       /\ array' = data.rows
                       /\ base' = 0
                       /\ active' = IF r.out = "nil" THEN "blocklist" ELSE "blockquery"
    /\ UNCHANGED <<o, b, l, pc, cur, lookups, sharedLoopVar>>

\* a call of BlockList.UnmarshalJSON on the collection a query returned; a
\* caller decodes a further batch into the collection only after a call that
\* returned nil
BlockListUnmarshalJSONCall ==
    /\ active = "blocklist" /\ call.out \in {"none", "nil"}
    /\ \E data \in Batches(BlockListRows(bl.columns)) :
         /\ Len(bl.Rows) + Len(data.rows) <= MaxRows
         /\ \E r \in {BlockListUnmarshalJSON(bl, data)} :
                /\ bl' = r.list
                /\ idx' = r.at
                /\ call' = ListCall("BlockList.UnmarshalJSON", data.form, r.out)
         /\ array' = data.rows
         /\ base' = Len(bl.Rows)
    /\ UNCHANGED <<o, b, l, pc, cur, active, lookups, sharedLoopVar>>

Next ==
    \/ WithColumns \/ WithPrim \/ WithMeta \/ OnError \/ WithScript \/ WithTypes
    \/ UnmarshalJSONBrief
    \/ BlockWithColumnsCall \/ BlockUnmarshalJSONBriefCall
    \/ OpQueryRun \/ OpListUnmarshalJSON \/ OpListLoadScript \/ OpListDecodeRow
    \/ BlockQueryRun \/ BlockListUnmarshalJSONCall

Spec == Init /\ [][Next]_vars

-----------------------------------------------------------------------------
(* Properties of the row decoders.                                         *)

OpBriefCalled == call.fn = "Op.UnmarshalJSONBrief"
BlockBriefCalled == call.fn = "Block.UnmarshalJSONBrief"
BriefCalled == OpBriefCalled \/ BlockBriefCalled

\* the column list and the value array of the last row decode
CallColumns == IF OpBriefCalled THEN call.preOp.columns ELSE call.preBlock.columns
CallValues == call.data.vals
CallKnownColumns == IF OpBriefCalled THEN OpColumns ELSE BlockColumns

\* how the case of position i ends when taken alone, on a fresh scratch record
\* ("skip" for a null value, "missing" past the end of the value array)
PositionOutcome(i) ==
    IF i > Len(CallValues) THEN "missing"
    ELSE IF CallValues[i].k = "null" THEN "skip"
    ELSE IF OpBriefCalled
         THEN OpBriefCase(call.preOp, ZeroOp, CallColumns[i], CallValues[i]).out
         ELSE BlockBriefCase(ZeroBlock, CallColumns[i], CallValues[i]).out

\* the outcomes of all positions of the column list
Outcomes == [i \in 1..Len(CallColumns) |-> PositionOutcome(i)]

\* the first position whose case does not end well, or 0
FirstBadIn(outs) ==
    IF \A i \in 1..Len(outs) : outs[i] \in {"ok", "skip"} THEN 0
    ELSE CHOOSE i \in 1..Len(outs) :
             /\ outs[i] \notin {"ok", "skip"}
             /\ \A j \in 1..(i - 1) : outs[j] \in {"ok", "skip"}
FirstBad == FirstBadIn(Outcomes)

\* the target of the last row decode, before and after the call
CallTargetBefore == IF OpBriefCalled THEN call.preOp ELSE call.preBlock
CallTargetAfter == IF OpBriefCalled THEN o ELSE b

\* the columns with one field of their own that a scalar rule or the rule
\* of the time fills
ScalarColumns ==
    IF OpBriefCalled
    THEN OpUintCols \cup OpIntCols \cup OpBoolCols \cup OpFloatCols \cup OpAddrCols
         \cup OpEnumCols \cup {"hash", "block", "time"}
    ELSE BlockColumns \ {"predecessor"}

\* the value the rule of column CallColumns[i] gives for the value at i
ParsedAt(i) ==
    IF CallColumns[i] = "time"
    THEN (IF OpBriefCalled THEN OpTimeCase(ZeroOp, CallValues[i])
          ELSE BlockTimeCase(ZeroBlock, CallValues[i])).op.Timestamp
    ELSE IF OpBriefCalled
    THEN OpScalarCase(ZeroOp, CallColumns[i], CallValues[i]).op[OpField(CallColumns[i])]
    ELSE BlockScalarCase(ZeroBlock, CallColumns[i], CallValues[i]).op[BlockField(CallColumns[i])]
FieldAt(i) ==
    IF OpBriefCalled THEN o[OpField(CallColumns[i])] ELSE b[BlockField(CallColumns[i])]

\* C1: a columnar row decode is all-or-nothing.  When the first position
\* that does not parse fails with an error, the call returns an error; after
\* every call that does not return nil the target is exactly what it was
\* before the call; and when the call returns nil, no position failed and
\* every scalar column with a value holds the value parsed for it.  A
\* position fails with an error on a text its parser rejects, for its
\* syntax or for its range (a number past the 64 bits of the field).
C1_RowDecodeAllOrNothing ==
    BriefCalled /\ call.data.form = "array" =>
        /\ call.out # "nil" => CallTargetAfter = CallTargetBefore
        /\ \E outs \in {Outcomes} : \E bad \in {FirstBadIn(outs)} :
             /\ (bad > 0 /\ outs[bad] = "error") => call.out = "error"
             /\ call.out = "nil" =>
                  /\ bad = 0
                  /\ \A i \in 1..Len(CallColumns) :
                       (CallColumns[i] \in ScalarColumns /\ outs[i] = "ok")
                           => FieldAt(i) = ParsedAt(i)

\* C1 witness: the decode of an Op row failed at a later position, on a
\* time of digits only that is past the range of int64, after an earlier
\* position had parsed a value into the scratch record
C1_Witness ==
    /\ OpBriefCalled /\ call.out = "error"
    /\ FirstBad > 1
    /\ PositionOutcome(1) = "ok" /\ CallColumns[1] \in ScalarColumns
    /\ ParsedAt(1) # ZeroOp[OpField(CallColumns[1])]
    /\ CallColumns[FirstBad] = "time" /\ CallValues[FirstBad].k = "num"
    /\ AllDigits(CallValues[FirstBad].n)
    /\ o = call.preOp

\* C4 (as claimed): a known column whose value has the wrong JSON kind makes
\* the row decode return an error, with the target unchanged
WrongKindAt(i) ==
    /\ i <= Len(CallValues)
    /\ CallValues[i].k # "null"
    /\ CallColumns[i] \in CallKnownColumns
    /\ PositionOutcome(i) = "panic"
C4_WrongKindReturnsError ==
    (BriefCalled /\ call.data.form = "array" /\ FirstBad > 0 /\ WrongKindAt(FirstBad))
        => (call.out = "error" /\ CallTargetAfter = CallTargetBefore)

\* C5 (as claimed): a value array shorter than the column list is decoded
\* without reading past its end: the call returns a record or an error
C5_ShortRowReturns ==
    (BriefCalled /\ call.data.form = "array" /\ Len(CallValues) < Len(CallColumns)
        /\ \A i \in 1..Len(CallValues) : PositionOutcome(i) # "panic")
        => call.out \in {"nil", "error"}

\* a sequence without its element at position p
RemoveAt(q, p) == SubSeq(q, 1, p - 1) \o SubSeq(q, p + 1, Len(q))

\* a position that holds null or names no recognized column
InertAt(p) ==
    /\ p <= Len(CallValues)
    /\ CallValues[p].k = "null" \/ CallColumns[p] \notin CallKnownColumns

\* the decode of the same row with position p absent from columns and values
DecodeWithout(p) ==
    IF OpBriefCalled
    THEN OpUnmarshalJSONBrief(OpWithColumns(call.preOp, RemoveAt(CallColumns, p)),
                              ArrayRow(RemoveAt(CallValues, p)))
    ELSE BlockUnmarshalJSONBrief(BlockWithColumns(call.preBlock, RemoveAt(CallColumns, p)),
                                 ArrayRow(RemoveAt(CallValues, p)))

\* C6: a position whose value is null, or whose column is not recognized,
\* contributes nothing: the call ends as it does with that position absent
\* and, when it returns nil, with the same record; a row of such positions
\* only yields the zero record; and the field of a null position holds its
\* zero value.
C6_NullAndUnknownContributeNothing ==
    (BriefCalled /\ call.data.form = "array" /\ Len(CallValues) >= Len(CallColumns)) =>
        /\ \A p \in 1..Len(CallColumns) : InertAt(p) =>
             /\ DecodeWithout(p).out = call.out
             /\ call.out = "nil" => DecodeWithout(p).target = CallTargetAfter
        /\ (\A p \in 1..Len(CallColumns) : InertAt(p)) =>
             /\ call.out = "nil"
             /\ CallTargetAfter = (IF OpBriefCalled THEN ZeroOp ELSE ZeroBlock)

\* C6 witness: a row with a null position, a position of an unknown column
\* and a position that decoded a value
C6_Witness ==
    /\ OpBriefCalled /\ call.out = "nil" /\ Len(CallColumns) = 3
    /\ Len(CallValues) >= 3
    /\ \E p, q, r \in 1..3 :
         /\ CallValues[p].k = "null" /\ CallColumns[p] = "id"
         /\ CallColumns[q] = "foo" /\ CallValues[q].k # "null"
         /\ CallColumns[r] = "data" /\ ~o.Data.nil
    /\ o.Id = Int64(0)

-----------------------------------------------------------------------------
(* Properties of the batch decoders and the cursors.                       *)

OpListCalled == call.fn = "OpList.UnmarshalJSON" /\ pc = "idle"
BlockListCalled == call.fn = "BlockList.UnmarshalJSON"

\* the position of a column in a column list, or 0
PositionOf(cols, name) ==
    IF \E i \in 1..Len(cols) : cols[i] = name
    THEN CHOOSE i \in 1..Len(cols) : cols[i] = name
    ELSE 0

\* the identifier a row gives: the id of an object, the number at the
\* position of the identifier column of a columnar row, else none (0)
RowIdentifier(cols, name, row) ==
    LET i == PositionOf(cols, name)
    IN  IF row.form = "object" THEN row.obj.Id
        ELSE IF row.form = "array" /\ i > 0 /\ i <= Len(row.vals) /\ row.vals[i].k = "num"
        THEN ParseUint(row.vals[i].n).v
        ELSE Int64(0)

\* C2 (as claimed): when the decode of a row of a batch fails, the call
\* returns the error and the collection holds none of the rows of that
\* batch.  The collections are those the caller holds: a query whose decode
\* fails returns no collection.
C2_BatchAllOrNothing ==
    /\ (OpListCalled /\ active = "oplist" /\ call.out = "error") => Len(l.Rows) = base
    /\ (BlockListCalled /\ active = "blocklist" /\ call.out = "error") => Len(bl.Rows) = base

\* the identifier of the deepest last child of an operation: the last
\* internal of the last batch item, else the last batch item, else the last
\* internal of the row, else the row
DeepestLastChildId(op) ==
    IF Len(op.Batch) > 0 THEN
        LET item == op.Batch[Len(op.Batch)]
        IN  IF Len(item.Internal) > 0 THEN item.Internal[Len(item.Internal)].Id ELSE item.Id
    ELSE IF Len(op.Internal) > 0 THEN op.Internal[Len(op.Internal)].Id
    ELSE op.Id

\* C7 (as claimed): the cursor of a non-empty operation collection is the
\* identifier of the deepest last child of its last row
C7_OpListCursorDeepest ==
    (active = "oplist" /\ pc = "idle" /\ Len(l.Rows) > 0)
        => OpListCursor(l) = DeepestLastChildId(l.Rows[Len(l.Rows)])

\* C8: the cursor of an empty collection is 0, for operations and blocks;
\* the cursor of a non-empty block collection is the RowId of its last
\* element, which after a batch decode that returned nil is the row
\* identifier the last row of the batch gave.
C8_CursorOfCollections ==
    /\ Len(l.Rows) = 0 => OpListCursor(l) = Int64(0)
    /\ Len(bl.Rows) = 0 => BlockListCursor(bl) = Int64(0)
    /\ Len(bl.Rows) > 0 => BlockListCursor(bl) = bl.Rows[Len(bl.Rows)].RowId
    /\ (BlockListCalled /\ call.out = "nil" /\ Len(array) > 0) =>
          BlockListCursor(bl) = RowIdentifier(bl.columns, "row_id", array[Len(array)])

\* C8 witness: a block collection filled by two batch decodes, whose cursor
\* is the identifier of the last row and not that of the first
C8_Witness ==
    /\ BlockListCalled /\ call.out = "nil" /\ base > 0 /\ Len(array) > 0
    /\ Len(bl.Rows) = base + Len(array)
    /\ BlockListCursor(bl) = Int64(8) /\ bl.Rows[1].RowId = Int64(7)

-----------------------------------------------------------------------------
(* Properties of the big-map records of a decoded row.                     *)

\* the last row decode was of an Op, returned nil and left big-map records
DiffDecoded == OpBriefCalled /\ call.out = "nil" /\ Len(o.BigmapDiff) > 0

\* the value type of a big-map id is resolvable from the types the target
\* held when the row was decoded
ValueTypeResolvable(id) ==
    /\ id \in DOMAIN call.preOp.types.bigmaps
    /\ TypeIsValid(TypeRight(call.preOp.types.bigmaps[id]))

\* the events the big_map_diff column of the decoded row holds
CallDiffEvents ==
    LET i == PositionOf(CallColumns, "big_map_diff")
    IN  IF i > 0 /\ i <= Len(CallValues) /\ CallValues[i].k = "str"
        THEN BigmapEventsUnmarshalBinary(CallValues[i].t).v
        ELSE <<>>

\* C9: every big-map record decoded from the big_map_diff column of a row
\* stands for the event at its position; an alloc or copy record carries no
\* value, a remove record carries no value even when the value type is
\* resolvable, and an update record carries a value if and only if the value
\* type of its big-map id is resolvable.
C9_BigmapValueOnlyForTypedUpdate ==
    DiffDecoded =>
        /\ Len(o.BigmapDiff) = Len(CallDiffEvents)
        /\ \A i \in 1..Len(o.BigmapDiff) :
             LET u == o.BigmapDiff[i]
             IN  /\ u.Action = CallDiffEvents[i].Action
                 /\ u.BigmapId = CallDiffEvents[i].Id
                 /\ u.Action \in {"alloc", "copy", "remove"} => u.Value.nil
                 /\ u.Action = "update" => (~u.Value.nil <=> ValueTypeResolvable(u.BigmapId))

\* C9 witness: a decoded row with an alloc record, an update record with a
\* value, an update record of an unresolvable big-map without one, and a
\* remove record of a resolvable big-map
C9_Witness ==
    /\ DiffDecoded
    /\ \E i, j, k, m \in 1..Len(o.BigmapDiff) :
         /\ o.BigmapDiff[i].Action = "alloc"
         /\ o.BigmapDiff[j].Action = "update" /\ ~o.BigmapDiff[j].Value.nil
         /\ o.BigmapDiff[k].Action = "update" /\ o.BigmapDiff[k].Value.nil
              /\ ~ValueTypeResolvable(o.BigmapDiff[k].BigmapId)
         /\ o.BigmapDiff[m].Action = "remove" /\ ValueTypeResolvable(o.BigmapDiff[m].BigmapId)

\* C10 (as claimed): with metadata requested, every update or remove record
\* of a decoded row carries metadata with the row's receiver, the record's
\* big-map id, the row's height and the row's timestamp, wherever
\* big_map_diff stands among the columns receiver, height, time
C10_MetaCarriesRowFields ==
    (DiffDecoded /\ call.preOp.withMeta
        /\ {"receiver", "height", "time", "big_map_diff"} \subseteq {CallColumns[i] : i \in 1..Len(CallColumns)})
    => \A i \in 1..Len(o.BigmapDiff) :
         LET u == o.BigmapDiff[i]
         IN  u.Action \in {"update", "remove"} =>
               /\ ~u.Meta.nil
               /\ u.Meta.Contract = o.Receiver
               /\ u.Meta.BigmapId = u.BigmapId
               /\ u.Meta.UpdateHeight = o.Height
               /\ u.Meta.UpdateTime = o.Timestamp

-----------------------------------------------------------------------------
(* Properties of the operation batch decoder and the contract resolver.    *)

\* a batch call of the OpList is running or has ended
OpListInCall == call.fn = "OpList.UnmarshalJSON"

\* the resolver answered that the contract has no script
NotFound(ans) == ~ans.err /\ ans.script.nil

\* C11: when the resolver reports NotFound for the receiver of row i, the
\* call does not fail at the lookup: the record built for the row holds no
\* type schema, the row ends as its decode without any schema ends, a row
\* that decodes is appended at its position, and a call that returns nil
\* has decoded every row of the batch, the rows after row i included.
C11_NotFoundFallsBack ==
    OpListInCall =>
        \A k \in 1..Len(lookups) :
            NotFound(lookups[k].ans) =>
                \E i \in {lookups[k].row} :
                \E d \in {OpUnmarshalJSON(OpListNewOp(l), array[i])} :
                    /\ (pc = "row" /\ idx = i) => (cur = OpListNewOp(l) /\ cur.types = NoTypes)
                    /\ (pc = "idle" /\ idx = i) => (call.out = d.out /\ d.out # "nil")
                    /\ idx > i => /\ d.out = "nil"
                                  /\ l.Rows[base + i] = [d.target EXCEPT !.columns = <<>>]
                    /\ (pc = "idle" /\ call.out = "nil") => Len(l.Rows) = base + Len(array)

\* C11 witness: a batch call returned nil; the resolver reported NotFound for
\* a row that is not the last one, and that row was appended with its
\* storage decoded without a value
C11_Witness ==
    /\ OpListInCall /\ pc = "idle" /\ call.out = "nil"
    /\ \E k \in 1..Len(lookups) :
         /\ NotFound(lookups[k].ans)
         /\ lookups[k].row < Len(array)
         /\ ~l.Rows[base + lookups[k].row].Storage.nil
         /\ l.Rows[base + lookups[k].row].Storage.Value.nil

\* C13: when the resolver answers the lookup of a row with an error, the
\* call has ended at that row and returned that very error value, no row
\* was appended since the lookup (the row was not decoded), and the lookup
\* is the last one of the call.
C13_ResolverErrorVerbatim ==
    OpListInCall =>
        \A k \in 1..Len(lookups) :
            lookups[k].ans.err =>
                /\ k = Len(lookups)
                /\ pc = "idle" /\ idx = lookups[k].row
                /\ call.out = "error" /\ call.err = lookups[k].ans.e
                /\ call.err \in ResolverErrors
                /\ Len(l.Rows) = lookups[k].rows
                /\ Len(l.Rows) = base + lookups[k].row - 1

\* C13 witness: the fetch for the first row of a batch was cancelled, and the
\* row after it is a contract call too, for which the resolver was not asked
C13_Witness ==
    /\ OpListInCall /\ Len(lookups) = 1
    /\ lookups[1].ans.err /\ lookups[1].ans.e = "context canceled"
    /\ lookups[1].row = 1 /\ Len(array) > 1
    /\ OpListAsksResolver(l, array[2])
    /\ call.err = "context canceled"

\* the value row v of the running batch holds for a column, JNull when it
\* holds none
RowValue(v, name) ==
    IF v.form = "array" /\ PositionOf(l.columns, name) > 0
         /\ PositionOf(l.columns, name) <= Len(v.vals)
    THEN v.vals[PositionOf(l.columns, name)]
    ELSE JNull

\* the row is a contract call: is_contract is 1 and the receiver is not empty
ContractRow(v) ==
    /\ RowValue(v, "is_contract") = JNum(<<"1">>)
    /\ RowValue(v, "receiver").k = "str" /\ RowValue(v, "receiver").t # ""

\* the loop has gone through the lookup step of row i
LookupStepDone(i) == i < idx \/ (i = idx /\ pc # "script")

\* the resolver was invoked for row i
LookedUp(i) == \E k \in 1..Len(lookups) : lookups[k].row = i

\* each lookup was made for the receiver of its row, when exactly the rows
\* before it were appended, and the lookups follow the order of the rows
LookupsInRowOrder ==
    \A k \in 1..Len(lookups) :
        /\ lookups[k].row \in 1..Len(array) /\ lookups[k].row <= idx
        /\ lookups[k].addr = RowValue(array[lookups[k].row], "receiver").t
        /\ lookups[k].rows = base + lookups[k].row - 1
        /\ k > 1 => lookups[k - 1].row < lookups[k].row
        /\ pc = "script" => lookups[k].row < idx

\* C14 (as claimed): the resolver is invoked for a row if and only if the
\* row's is_contract column is 1 and its receiver column is not empty, after
\* the rows before it were appended and before the row is decoded, in the
\* order of the rows.
C14_ResolverIffContractRow ==
    OpListInCall =>
        /\ \A i \in 1..Len(array) :
              LookupStepDone(i) => (LookedUp(i) <=> ContractRow(array[i]))
        /\ LookupsInRowOrder

\* C14 (amended): the resolver is invoked for a row if and only if the row's
\* is_contract column is 1 and its receiver column holds a text that parses
\* as an address (a receiver that does not parse ends the call with an error
\* before any lookup); the lookup is made after the rows before it were
\* appended and before the row is decoded, in the order of the rows.
C14_ResolverIffAddressedContractRow ==
    OpListInCall =>
        /\ \A i \in 1..Len(array) :
              LookupStepDone(i) =>
                  (LookedUp(i) <=> (ContractRow(array[i])
                                    /\ RowValue(array[i], "receiver").t \in ValidAddresses))
        /\ \A i \in 1..Len(array) :
              (LookupStepDone(i) /\ ContractRow(array[i])
                  /\ RowValue(array[i], "receiver").t \notin ValidAddresses)
              => (pc = "idle" /\ idx = i /\ call.err = ErrReceiver)
        /\ LookupsInRowOrder

\* C14 witness: a batch call returned nil for two rows; the resolver was
\* asked for the second row only, the first row having a receiver without
\* being a contract call
C14_Witness ==
    /\ OpListInCall /\ pc = "idle" /\ call.out = "nil" /\ Len(array) = 2
    /\ RowValue(array[1], "receiver").k = "str" /\ ~ContractRow(array[1])
    /\ ContractRow(array[2])
    /\ Len(lookups) = 1 /\ lookups[1].row = 2 /\ lookups[1].rows = base + 1

-----------------------------------------------------------------------------
(* Properties of the decode options and of the column order.               *)

\* the last row decode was of an Op and returned nil
OpRowDecoded == OpBriefCalled /\ call.out = "nil"

\* the text the decoded row holds for a column, "" when it holds none
CallText(name) ==
    IF PositionOf(CallColumns, name) > 0 /\ PositionOf(CallColumns, name) <= Len(CallValues)
         /\ CallValues[PositionOf(CallColumns, name)].k = "str"
    THEN CallValues[PositionOf(CallColumns, name)].t
    ELSE ""

\* C15 (as claimed): the decoded record keeps the primitive tree of its
\* parameters, of its storage, of the key of every update and remove record,
\* of the value of every update record and of the key type and value type of
\* every alloc and copy record if and only if the record that was decoded
\* into had the retain-primitives option set, and a tree a big-map record
\* keeps is that of its own event.
C15_PrimKeptExactlyWhenRequested ==
    OpRowDecoded =>
        /\ CallText("parameters") \in DOMAIN ParamBlobs =>
              (~o.Parameters.Prim.nil <=> call.preOp.withPrim)
        /\ ~o.Storage.nil => (~o.Storage.Prim.nil <=> call.preOp.withPrim)
        /\ \A i \in 1..Len(o.BigmapDiff) :
              \E u \in {o.BigmapDiff[i]} :
                  /\ u.Action \in {"update", "remove"} =>
                        (~u.KeyPrim.nil <=> call.preOp.withPrim)
                  /\ u.Action = "update" => (~u.ValuePrim.nil <=> call.preOp.withPrim)
                  /\ ~u.KeyPrim.nil => u.KeyPrim = Ptr(CallDiffEvents[i].Key)
                  /\ ~u.ValuePrim.nil => u.ValuePrim = Ptr(CallDiffEvents[i].Value.name)
                  /\ u.Action \in {"alloc", "copy"} =>
                        /\ ~u.KeyTypePrim.nil <=> call.preOp.withPrim
                        /\ ~u.ValueTypePrim.nil <=> call.preOp.withPrim

\* the sequence q taken in the order p of its positions
Permuted(q, p) == [i \in 1..Len(p) |-> q[p[i]]]

\* the decode of the last row with its columns and its values both taken in
\* the order p
DecodePermuted(p) ==
    OpUnmarshalJSONBrief([call.preOp EXCEPT !.columns = Permuted(CallColumns, p)],
                         ArrayRow(Permuted(CallValues, p)))

\* C16 (as claimed): a row decode of an Op that is given one value per
\* column ends, for every order of its columns applied to its values as
\* well, in success or in failure as it did, and on success with the same
\* record.
C16_ColumnOrderIndependent ==
    (OpBriefCalled /\ call.data.form = "array" /\ Len(CallValues) = Len(CallColumns)) =>
        \A p \in Perms(1..Len(CallColumns)) :
            \E r \in {DecodePermuted(p)} :
                /\ (r.out = "nil") <=> (call.out = "nil")
                /\ call.out = "nil" => r.target = o

-----------------------------------------------------------------------------
(* The type schema of each row of an operation batch.                      *)

\* the schema resolved for row i itself: the types of the script the
\* resolver answered for the row's receiver, none when it answered no
\* script or was not asked for the row
OwnTypes(i) ==
    IF LookedUp(i)
    THEN lookups[CHOOSE k \in 1..Len(lookups) : lookups[k].row = i].ans.script.types
    ELSE NoTypes

\* the record of a row of the batch that holds the row's own schema only
OwnRecord(i) ==
    [ZeroOp EXCEPT !.withPrim = l.withPrim, !.columns = l.columns, !.types = OwnTypes(i)]

-----------------------------------------------------------------------------
(* The rows a batch decode adds to a collection.                           *)

\* a well-formed row of a batch: an object, the empty array however it is
\* written, or an array that gives every column null or a value its case
\* accepts (for an operation, under the schema resolved for the row)
WellFormedBlockRow(i) ==
    \/ array[i].form = "object"
    \/ array[i].form = "array" /\ Len(array[i].vals) = 0
    \/ /\ array[i].form = "array" /\ Len(array[i].vals) >= Len(bl.columns)
       /\ \A j \in 1..Len(bl.columns) :
            \/ array[i].vals[j].k = "null"
            \/ BlockBriefCase(ZeroBlock, bl.columns[j], array[i].vals[j]).out = "ok"
WellFormedOpRow(i) ==
    \/ array[i].form = "object"
    \/ array[i].form = "array" /\ Len(array[i].vals) = 0
    \/ /\ array[i].form = "array" /\ Len(array[i].vals) >= Len(l.columns)
       /\ \A j \in 1..Len(l.columns) :
            \/ array[i].vals[j].k = "null"
            \/ OpBriefCase(OwnRecord(i), ZeroOp, l.columns[j], array[i].vals[j]).out = "ok"

\* the resolver answered every lookup of the call without an error
ResolverAnswered == \A k \in 1..Len(lookups) : ~lookups[k].ans.err

\* C3 (as claimed): a batch of N well-formed rows, rows that are the empty
\* array included, is decoded into N further rows of the collection, the
\* i-th of them the record the decode of the i-th row of the batch gives.
\* (For an operation batch: when the resolver answers without an error.)
C3_BatchDecodeInOrder ==
    /\ (BlockListCalled /\ call.data.form = "array"
          /\ \A i \in 1..Len(array) : WellFormedBlockRow(i)) =>
          /\ call.out = "nil"
          /\ Len(bl.Rows) = base + Len(array)
          /\ \A i \in 1..Len(array) :
               \E d \in {BlockUnmarshalJSON(BlockWithColumns(ZeroBlock, bl.columns), array[i])} :
                   /\ d.out = "nil"
                   /\ bl.Rows[base + i] = [d.target EXCEPT !.columns = <<>>]
    /\ (OpListCalled /\ call.data.form = "array" /\ ResolverAnswered
          /\ \A i \in 1..Len(array) : WellFormedOpRow(i)) =>
          /\ call.out = "nil"
          /\ Len(l.Rows) = base + Len(array)
          /\ \A i \in 1..Len(array) :
               \E d \in {OpUnmarshalJSON(OwnRecord(i), array[i])} :
                   /\ d.out = "nil"
                   /\ l.Rows[base + i] = [d.target EXCEPT !.columns = <<>>]

\* C3 witness: a block collection with columns was given a batch whose rows
\* are well-formed, one of them the empty array written "[ ]", and the call
\* did not return
C3_Witness ==
    /\ BlockListCalled /\ call.data.form = "array" /\ Len(bl.columns) > 0
    /\ \A i \in 1..Len(array) : WellFormedBlockRow(i)
    /\ \E i \in 1..Len(array) : array[i] = PaddedEmptyRow
    /\ call.out = "panic"

\* C17: the record a row of an operation batch is decoded into holds the
\* schema resolved for the row's own receiver, or none when the row is not a
\* contract call, and every appended row is what the decode of its row with
\* that schema gives, whatever rows came before it.
C17_RowUsesOwnSchema ==
    OpListInCall =>
        /\ pc = "row" => cur = OwnRecord(idx)
        /\ \A i \in 1..Len(array) :
              i < idx =>
                  \E d \in {OpUnmarshalJSON(OwnRecord(i), array[i])} :
                      /\ d.out = "nil"
                      /\ l.Rows[base + i] = [d.target EXCEPT !.columns = <<>>]

\* C17 witness: a batch call returned nil; the first row was decoded with
\* the schema of its contract, the second row is no contract call and its
\* storage was decoded without a schema
C17_Witness ==
    /\ OpListInCall /\ pc = "idle" /\ call.out = "nil" /\ Len(array) = 2
    /\ OwnTypes(1) # NoTypes /\ ~l.Rows[base + 1].Storage.Value.nil
    /\ ~LookedUp(2) /\ OwnTypes(2) = NoTypes
    /\ ~l.Rows[base + 2].Storage.nil /\ l.Rows[base + 2].Storage.Value.nil

====
